---- MODULE Spec2Model ----
(***************************************************************************)
(* van-sheet: the per-instance open/close state machine of createSheet     *)
(* (src/src/create-sheet.ts) together with the shared stack coordinator    *)
(* (src/unnamed/part_004, imported as ./internal/stack).                   *)
(*                                                                         *)
(* The open flag of a sheet is a VanJS state (options.isOpen).  The        *)
(* reconciliation `stateSync` is a van.derive: it does not run when the    *)
(* flag is written, it runs later, in the batch VanJS schedules on the     *)
(* first write (the tests wait for it with `await Promise.resolve()`).     *)
(* The model keeps that batch explicit: `changedStates` is the set of      *)
(* written states in first-write order, `listeners[s]` the derives         *)
(* subscribed to state s, and UpdateDoms is the batch.                     *)
(***************************************************************************)
EXTENDS Integers, Sequences, FiniteSets, TLC

\* ------------------------------------------------------------------ bounds
NumSheets == 2            \* sheets the host constructs in one run
MaxOpens == 3             \* writes of `true` to open flags in one run
DismissSheets == 1        \* sheets the host constructs under SpecDismiss
DismissOpens == 2         \* writes of `true` in one run of SpecDismiss
HistoryOpens == 2         \* writes of `true` in one run of SpecHistory
GestureOpens == 2         \* writes of `true` in one run of SpecGesture
HeightSheets == 1         \* sheets the host constructs under SpecHeight
HeightOpens == 2          \* writes of `true` in one run of SpecHeight

SnapshotSheets == 1       \* sheets the host constructs under SpecSnapshot
MaxStack == 10            \* open sheets of the stack a snapshot is made for
MaxSections == 3          \* sections of one configuration in SpecConstruct
HalfPx == 2               \* the visual viewport reports halves of a pixel

\* ------------------------------------------------------- program constants
DRAG_CLOSE_THRESHOLD_PX == 150
MOBILE_SHEET_HEIGHT_RATIO == 95      \* in hundredths
KEYBOARD_CLOSED_EPSILON_PX == 1
STACK_OFFSET_STEP_PX == 12
STACK_SCALE_STEP == 40               \* in thousandths
STACK_MIN_SCALE == 720               \* in thousandths

Ids == 1..NumSheets
NoId == 0                 \* activeStackDragParticipantId === null
Reasons == {"api", "backdrop", "escape", "drag", "close-button"}
Unit == 1000              \* drag progress and visual depth in thousandths
Removed == -1             \* a style property that is not set on the element
Undefined == -2           \* an optional participantId that is not passed

VARIABLES
  \* stack coordinator (module state of ./internal/stack)
  sheetStackParticipants,        \* keys of the Map; insertion order is id order
  nextSheetStackParticipantId,
  nextSheetStackOpenOrder,
  activeStackDragParticipantId,
  activeStackDragProgress,       \* thousandths, 0..Unit
  \* VanJS reactive state of every options.isOpen
  isOpen,                        \* options.isOpen.val
  oldVal,                        \* value the last finished batch saw
  listeners,                     \* listeners[s]: derives subscribed to state s
  changedStates,                 \* written states awaiting the batch, in order
  \* createSheet closure state, per instance
  status,                        \* "none" | "live" | "destroyed"
  dismissible, closeOnBackdrop, closeOnEscape,
  pendingReason, previousOpen, openOrder,
  retainStackSnapshotWhileClosed,
  stackSnapshotRetainSchedule,   \* [timeout, handler]: what is still armed
  rootState,                     \* root.dataset.state
  stackDom,                      \* stack variables/markers on root, or NoSnap
  isTouchTracking, isDragging, dragOffsetY, dragPanelHeight,
  backdropOpacity,               \* --vsheet-backdrop-open-opacity on root, in
                                 \*   thousandths, or Removed
  panelStyle,                    \* panel.style.transform, root.dataset.dragging
                                 \*   and the once-listeners of animatePanelTo;
                                 \*   written, never read, by the program, and
                                 \*   followed only in a run that observes
                                 \*   "panel"
  adjustableHeight,              \* options.adjustableHeight
  sectionsElement,               \* data-vsheet-scroll of each section element
  mobileHeightState,             \* what clearMobileHeightState clears: the
                                 \*   height variables on root, panel bottom,
                                 \*   keyboard marker, base height and cache
  adjustableTrackingReady,
  adjustableTracking,            \* root.dataset.adjustableTracking
  adjustableTrackingStartSchedule,
  dragCloseStateClearSchedule,
  shouldDeferCloseStateClear,
  tracking,                      \* viewport listeners, content observers and
                                 \*   the two animation-frame requests
  \* page scroll lock (module state of ./internal/body-scroll-lock, and the
  \* inline styles of document.body and document.documentElement)
  documentBodyScroll,
  \* closure state of one openOptionSheet() call (demo/open-option-sheet)
  optionSheet,
  \* environment
  mobile,                        \* matchMedia("(max-width: 767px)").matches
  viewport,                      \* window.innerHeight, window.visualViewport
                                 \*   and the width layout gives the content
  content,                       \* content[i]: the natural panel height a
                                 \*   measurement of sheet i returns
  hostOptions,                   \* the options the host constructs sheets with
  thrown,                        \* the error the latest operation threw to the
                                 \*   host, or NoError
  \* observation (not program state)
  observed,                      \* what this run records, of the five below
  calls,                         \* "calls": calls[i] is the sequence of
                                 \*   onOpenChange calls the latest step made
  cause,                         \* "calls": what made the latest write of
                                 \*   isOpen[i]
  unreported,                    \* "transitions": value changes of isOpen[i]
                                 \*   minus onOpenChange calls of i
  reported,                      \* "history": the flag value createSheet
                                 \*   found for i and the open value of the
                                 \*   latest onOpenChange call of i
  lastOp,                        \* "ops": the operation of the latest step
  effectRuns,                    \* "effects": effectRuns[i][race] counts the
                                 \*   runs of the effect of a race of i since
                                 \*   the race was last scheduled
  lastOpened,                    \* "order": the instance whose flag became
                                 \*   true most recently
  opens                          \* writes of `true` so far (bounded)

\* No error was thrown.
NoError == "none"

vars == << sheetStackParticipants, nextSheetStackParticipantId,
           nextSheetStackOpenOrder, activeStackDragParticipantId,
           activeStackDragProgress, isOpen, oldVal, listeners, changedStates,
           status, dismissible, closeOnBackdrop, closeOnEscape,
           pendingReason, previousOpen, openOrder,
           retainStackSnapshotWhileClosed, stackSnapshotRetainSchedule,
           rootState, stackDom, isTouchTracking, isDragging, dragOffsetY,
           dragPanelHeight, backdropOpacity, panelStyle, adjustableHeight,
           mobileHeightState, adjustableTrackingReady, adjustableTracking,
           adjustableTrackingStartSchedule, dragCloseStateClearSchedule,
           shouldDeferCloseStateClear, tracking, sectionsElement, viewport,
           content, mobile, hostOptions, thrown, documentBodyScroll, optionSheet,
           observed, calls, cause,
           unreported, reported, lastOp, effectRuns, lastOpened, opens >>

\* The state as one record, so that a handler is a function World -> World.
World ==
  [ participants |-> sheetStackParticipants,
    nextId |-> nextSheetStackParticipantId,
    nextOrder |-> nextSheetStackOpenOrder,
    dragId |-> activeStackDragParticipantId,
    dragProgress |-> activeStackDragProgress,
    isOpen |-> isOpen, oldVal |-> oldVal, listeners |-> listeners,
    changed |-> changedStates,
    status |-> status, dismissible |-> dismissible,
    closeOnBackdrop |-> closeOnBackdrop, closeOnEscape |-> closeOnEscape,
    pendingReason |-> pendingReason, previousOpen |-> previousOpen,
    openOrder |-> openOrder,
    retain |-> retainStackSnapshotWhileClosed,
    schedule |-> stackSnapshotRetainSchedule,
    rootState |-> rootState, stackDom |-> stackDom,
    isTouchTracking |-> isTouchTracking, isDragging |-> isDragging,
    dragOffsetY |-> dragOffsetY, dragPanelHeight |-> dragPanelHeight,
    backdropOpacity |-> backdropOpacity, panelStyle |-> panelStyle,
    adjustableHeight |-> adjustableHeight,
    mobileHeightState |-> mobileHeightState,
    adjustableTrackingReady |-> adjustableTrackingReady,
    adjustableTracking |-> adjustableTracking,
    adjustableTrackingStartSchedule |-> adjustableTrackingStartSchedule,
    dragCloseStateClearSchedule |-> dragCloseStateClearSchedule,
    shouldDeferCloseStateClear |-> shouldDeferCloseStateClear,
    tracking |-> tracking, viewport |-> viewport, content |-> content,
    mobile |-> mobile, hostOptions |-> hostOptions,
    sectionsElement |-> sectionsElement,
    documentBodyScroll |-> documentBodyScroll,
    optionSheet |-> optionSheet,
    thrown |-> NoError,          \* every operation starts without an error
    observed |-> observed,
    calls |-> [i \in Ids |-> << >>], cause |-> cause,
    unreported |-> unreported, reported |-> reported,
    effectRuns |-> effectRuns,
    lastOpened |-> lastOpened, opens |-> opens,
    syncs |-> 0,                 \* "syncs": syncSheetStackState calls of the
                                 \*   running operation
    derived |-> << >>,           \* VanJS derivedStates of the running batch
    reacted |-> {} ]             \* whose callback the host has answered in it

Commit(w, op) ==
  /\ sheetStackParticipants' = w.participants
  /\ nextSheetStackParticipantId' = w.nextId
  /\ nextSheetStackOpenOrder' = w.nextOrder
  /\ activeStackDragParticipantId' = w.dragId
  /\ activeStackDragProgress' = w.dragProgress
  /\ isOpen' = w.isOpen
  /\ oldVal' = w.oldVal
  /\ listeners' = w.listeners
  /\ changedStates' = w.changed
  /\ status' = w.status
  /\ dismissible' = w.dismissible
  /\ closeOnBackdrop' = w.closeOnBackdrop
  /\ closeOnEscape' = w.closeOnEscape
  /\ pendingReason' = w.pendingReason
  /\ previousOpen' = w.previousOpen
  /\ openOrder' = w.openOrder
  /\ retainStackSnapshotWhileClosed' = w.retain
  /\ stackSnapshotRetainSchedule' = w.schedule
  /\ rootState' = w.rootState
  /\ stackDom' = w.stackDom
  /\ isTouchTracking' = w.isTouchTracking
  /\ isDragging' = w.isDragging
  /\ dragOffsetY' = w.dragOffsetY
  /\ dragPanelHeight' = w.dragPanelHeight
  /\ backdropOpacity' = w.backdropOpacity
  /\ panelStyle' = w.panelStyle
  /\ adjustableHeight' = w.adjustableHeight
  /\ mobileHeightState' = w.mobileHeightState
  /\ adjustableTrackingReady' = w.adjustableTrackingReady
  /\ adjustableTracking' = w.adjustableTracking
  /\ adjustableTrackingStartSchedule' = w.adjustableTrackingStartSchedule
  /\ dragCloseStateClearSchedule' = w.dragCloseStateClearSchedule
  /\ shouldDeferCloseStateClear' = w.shouldDeferCloseStateClear
  /\ tracking' = w.tracking
  /\ viewport' = w.viewport
  /\ content' = w.content
  /\ mobile' = w.mobile
  /\ hostOptions' = w.hostOptions
  /\ sectionsElement' = w.sectionsElement
  /\ thrown' = w.thrown
  /\ documentBodyScroll' = w.documentBodyScroll
  /\ optionSheet' = w.optionSheet
  /\ observed' = w.observed
  /\ calls' = w.calls
  /\ cause' = w.cause
  /\ unreported' = w.unreported
  /\ reported' = w.reported
  /\ effectRuns' = w.effectRuns
  /\ lastOpened' = w.lastOpened
  /\ opens' = w.opens
  /\ lastOp' = IF "ops" \in w.observed THEN op ELSE lastOp

\* ------------------------------------------------------ page scroll lock
\* The inline styles the host page has before any lock, and the module state
\* of ./internal/body-scroll-lock as it is loaded.  The page is not scrolled.
NoStyleSnapshot == [taken |-> FALSE]

HostDocument ==
  [ activeDocumentBodyScrollLocks |-> 0,
    lockedScrollY |-> 0,
    body |-> [ overflow |-> "auto", position |-> "", top |-> "",
               left |-> "", right |-> "", width |-> "" ],
    documentElement |-> [ overflow |-> "scroll" ],
    bodyInlineStyleSnapshot |-> NoStyleSnapshot,
    documentInlineStyleSnapshot |-> NoStyleSnapshot ]

\* lockDocumentBodyScroll: the first lock snapshots and overwrites the inline
\* styles, every lock counts.
lockDocumentBodyScroll(d) ==
  IF d.activeDocumentBodyScrollLocks = 0
  THEN [ d EXCEPT
           !.lockedScrollY = 0,
           !.bodyInlineStyleSnapshot = [taken |-> TRUE, style |-> d.body],
           !.documentInlineStyleSnapshot =
             [taken |-> TRUE, style |-> d.documentElement],
           !.documentElement = [ overflow |-> "hidden" ],
           !.body = [ overflow |-> "hidden", position |-> "fixed",
                      top |-> "-0px", left |-> "0", right |-> "0",
                      width |-> "100%" ],
           !.activeDocumentBodyScrollLocks = 1 ]
  ELSE [ d EXCEPT !.activeDocumentBodyScrollLocks = @ + 1 ]

\* unlockDocumentBodyScroll: nothing at count 0; the last unlock restores
\* the snapshots and forgets them.
unlockDocumentBodyScroll(d) ==
  IF d.activeDocumentBodyScrollLocks = 0 THEN d
  ELSE IF d.activeDocumentBodyScrollLocks - 1 > 0
  THEN [ d EXCEPT !.activeDocumentBodyScrollLocks = @ - 1 ]
  ELSE [ d EXCEPT
           !.activeDocumentBodyScrollLocks = 0,
           !.body = IF d.bodyInlineStyleSnapshot.taken
                    THEN d.bodyInlineStyleSnapshot.style ELSE @,
           !.documentElement = IF d.documentInlineStyleSnapshot.taken
                               THEN d.documentInlineStyleSnapshot.style ELSE @,
           !.lockedScrollY = 0,
           !.bodyInlineStyleSnapshot = NoStyleSnapshot,
           !.documentInlineStyleSnapshot = NoStyleSnapshot ]

\* ------------------------------------------------------------ option sheet
\* The options of the demo sheet, and null.
OPTIONS == {"a", "b", "c"}
Null == "null"

\* openOptionSheet has not been called: no sheet, nothing settled, no
\* animation frame requested.  `resolved` is the sequence of the values
\* resolve() was called with, `destroySchedules` holds one entry per call of
\* destroyAfterCloseAnimation (its listener, its timer and its
\* settledDestroy flag), `destroyCalls` counts closingSheet.destroy().
NoOptionSheet ==
  [ called |-> FALSE, sheet |-> NoId, selected |-> "a", settled |-> FALSE,
    resolved |-> << >>, frame |-> FALSE, destroySchedules |-> << >>,
    destroyCalls |-> 0 ]

\* settle(value)
settle(w, value) ==
  IF w.optionSheet.settled THEN w
  ELSE [w EXCEPT !.optionSheet.settled = TRUE,
                 !.optionSheet.resolved = Append(@, value)]

\* destroyAfterCloseAnimation(): a once-listener on the panel and a 550 ms
\* timer, both for settleDestroy.
destroyAfterCloseAnimation(w) ==
  IF w.optionSheet.sheet = NoId THEN w
  ELSE [w EXCEPT !.optionSheet.destroySchedules =
                   Append(@, [closingSheet |-> w.optionSheet.sheet,
                              settledDestroy |-> FALSE,
                              listener |-> TRUE, timeout |-> TRUE])]

\* The onOpenChange callback openOptionSheet gives its sheet.
optionSheetOnOpenChange(w, open, reason) ==
  IF open THEN w
  ELSE destroyAfterCloseAnimation(
         IF reason # "api" THEN settle(w, Null) ELSE w)

\* ----------------------------------------------------------------- helpers
Max(a, b) == IF a >= b THEN a ELSE b
Min(a, b) == IF a <= b THEN a ELSE b

NoSnap == [cleared |-> TRUE]

\* The three transitionend-or-timer races of an instance, and the record of
\* their effects: a scheduling starts the count of the race anew.
Races == {"retain", "adjustable", "dragClose"}

EffectRuns(w, i, race) ==
  IF "effects" \in w.observed
  THEN [w EXCEPT !.effectRuns[i][race] = @ + 1] ELSE w

Scheduled(w, i, race) ==
  IF "effects" \in w.observed
  THEN [w EXCEPT !.effectRuns[i][race] = 0] ELSE w
NoSchedule == [timeout |-> FALSE, handler |-> FALSE]
Armed == [timeout |-> TRUE, handler |-> TRUE]

\* The mobile geometry state after clearMobileHeightState.
NoMobileHeightState ==
  [ mobileHeight |-> Removed,            \* --vsheet-mobile-height, px
    keyboardHeight |-> Removed,          \* --vsheet-keyboard-height, px
    rootOffsetY |-> Removed,             \* --vsheet-root-offset-y, px
    bottom |-> Removed,                  \* panel.style.bottom, px
    keyboardOpen |-> FALSE,              \* root.dataset.keyboardOpen
    baseMobileViewportHeight |-> 0,
    cachedNaturalPanelHeight |-> 0,
    naturalPanelHeightDirty |-> TRUE,
    lastMeasuredScrollContentWidth |-> 0 ]

NoTracking ==
  [ stopViewportTracking |-> FALSE,      \* viewport listeners attached
    contentObservers |-> FALSE,          \* load listener and observers
    scheduledMobileHeightUpdateRaf |-> FALSE,
    mobileHeightUpdateFrames |-> 0,      \* height-update callbacks the
                                         \*   browser holds for the next frame
    scheduledClosedPremeasureRaf |-> FALSE ]

\* ------------------------------------------------------- stack coordinator

\* Position of participant i in the array Array.from(map.values())
\* .filter(isOpen).sort(by getOpenOrder): the sort is stable, so equal
\* orders keep the Map's insertion order, which is the order of the ids.
SortIndex(w, i) ==
  Cardinality({ j \in w.participants :
                  /\ w.isOpen[j]
                  /\ \/ w.openOrder[j] < w.openOrder[i]
                     \/ (w.openOrder[j] = w.openOrder[i] /\ j < i) })

getOpenSheetStackParticipants(w) ==
  LET open == { i \in w.participants : w.isOpen[i] }
  IN  [ k \in 1..Cardinality(open) |->
          CHOOSE i \in open : SortIndex(w, i) = k - 1 ]

getTopOpenSheetStackParticipant(w) ==
  LET openParticipants == getOpenSheetStackParticipants(w)
  IN  IF Len(openParticipants) = 0 THEN NoId
      ELSE openParticipants[Len(openParticipants)]

isTopOpenSheetStackParticipant(w, participantId) ==
  /\ getTopOpenSheetStackParticipant(w) # NoId
  /\ getTopOpenSheetStackParticipant(w) = participantId

\* Mutant of depthFromTopOf: counts the participant itself.
depthFromTopOf_OffByOne(openCount, index) == openCount - index

\* The snapshot syncSheetStackState hands to the participant at 0-based
\* `index` of the sorted array.
depthFromTopOf(openCount, index) == openCount - index - 1

StackSnapshot(openCount, index, stackDragProgress) ==
  LET depthFromTop == depthFromTopOf(openCount, index)
  IN  [ depthFromTop |-> depthFromTop,
        isTop |-> depthFromTop = 0,
        layer |-> index,
        openCount |-> openCount,
        visualDepth |-> Max(0, depthFromTop * Unit - stackDragProgress),
        stackDragging |-> stackDragProgress > 0 ]

\* What one syncSheetStackState would hand to every participant: a snapshot
\* for an open one, "null" for a registered one that is not open, "none" for
\* an id that is not registered (its callback is not called).
\* Mutant of SnapshotsOf: the progress is applied whoever owns it.
SnapshotsOf_AnyOwner(w) ==
  LET openParticipants == getOpenSheetStackParticipants(w)
      openCount == Len(openParticipants)
  IN  [ i \in Ids |->
          IF i \notin w.participants THEN [kind |-> "none"]
          ELSE IF ~w.isOpen[i] THEN [kind |-> "null"]
          ELSE [kind |-> "snapshot",
                snapshot |-> StackSnapshot(openCount, SortIndex(w, i),
                                           w.dragProgress)] ]

SnapshotsOf(w) ==
  LET openParticipants == getOpenSheetStackParticipants(w)
      openCount == Len(openParticipants)
      topParticipant == getTopOpenSheetStackParticipant(w)
      stackDragProgress ==
        IF topParticipant # NoId /\ w.dragId = topParticipant
        THEN w.dragProgress ELSE 0
  IN  [ i \in Ids |->
          IF i \notin w.participants THEN [kind |-> "none"]
          ELSE IF ~w.isOpen[i] THEN [kind |-> "null"]
          ELSE [kind |-> "snapshot",
                snapshot |-> StackSnapshot(openCount, SortIndex(w, i),
                                           stackDragProgress)] ]

\* Math.round(n / d) for d > 0: halves round up.
Round(n, d) == (2 * n + d) \div (2 * d)

\* --vsheet-stack-offset-y in thousandths of a pixel, for a visual depth in
\* thousandths: Math.round(stackOffsetY * 1000) / 1000.
stackOffsetYOf(visualDepth) ==
  Round(-(visualDepth * STACK_OFFSET_STEP_PX) * Unit, Unit)

\* Mutant of stackScaleOf: no lower limit on the scale.
stackScaleOf_NoFloor(visualDepth) ==
  Round(Unit * Unit - visualDepth * STACK_SCALE_STEP, Unit)

\* --vsheet-stack-scale in thousandths: Math.round(stackScale * 1000) / 1000.
stackScaleOf(visualDepth) ==
  Round(Max(STACK_MIN_SCALE * Unit,
            Unit * Unit - visualDepth * STACK_SCALE_STEP), Unit)

\* createSheet's applyStackSnapshot, for instance i.
applyStackSnapshot(w, i, given) ==
  IF given.kind = "null"
  THEN IF ~w.retain[i] \/ w.isOpen[i]
       THEN [w EXCEPT !.stackDom[i] = NoSnap]
       ELSE w
  ELSE IF ~w.isOpen[i]
  THEN [w EXCEPT !.stackDom[i] = NoSnap]
  ELSE [w EXCEPT !.stackDom[i] =
          [ cleared |-> FALSE,
            layer |-> given.snapshot.layer,
            stackTop |-> given.snapshot.isTop,
            stackDepth |-> Max(0, given.snapshot.depthFromTop),
            stackSize |-> given.snapshot.openCount,
            visualDepth |-> Max(0, given.snapshot.visualDepth),
            stackOffsetY |->
              stackOffsetYOf(Max(0, given.snapshot.visualDepth)),
            stackScale |-> stackScaleOf(Max(0, given.snapshot.visualDepth)),
            stackDragging |-> given.snapshot.stackDragging ]]

RECURSIVE ApplyAll(_, _, _)
ApplyAll(w, given, todo) ==
  IF todo = {} THEN w
  ELSE LET i == CHOOSE x \in todo : \A y \in todo : x <= y
       IN  ApplyAll(applyStackSnapshot(w, i, given[i]), given, todo \ {i})

\* The applyStackSnapshot calls of one syncSheetStackState, in the order they
\* are made: the loop over the sorted open participants, then the loop over
\* the registry (in insertion order, the order of the ids) that skips the
\* ids of the open ones and hands null.
RECURSIVE nullSnapshotCalls(_, _)
nullSnapshotCalls(todo, openParticipantIds) ==
  IF todo = {} THEN << >>
  ELSE LET i == CHOOSE x \in todo : \A y \in todo : x <= y
           rest == nullSnapshotCalls(todo \ {i}, openParticipantIds)
       IN  IF i \in openParticipantIds THEN rest
           ELSE << [id |-> i, given |-> [kind |-> "null"]] >> \o rest

\* Mutant of syncSheetStackStateCalls: the second loop skips nothing.
syncSheetStackStateCalls_NoSkip(w) ==
  LET openParticipants == getOpenSheetStackParticipants(w)
  IN  [ k \in 1..Len(openParticipants) |->
          [id |-> openParticipants[k],
           given |-> SnapshotsOf(w)[openParticipants[k]]] ]
        \o nullSnapshotCalls(w.participants, {})

syncSheetStackStateCalls(w) ==
  LET openParticipants == getOpenSheetStackParticipants(w)
      openParticipantIds ==
        { openParticipants[k] : k \in 1..Len(openParticipants) }
  IN  [ k \in 1..Len(openParticipants) |->
          [id |-> openParticipants[k],
           given |-> SnapshotsOf(w)[openParticipants[k]]] ]
        \o nullSnapshotCalls(w.participants, openParticipantIds)

\* Mutant of syncSheetStackState: the drag record is never reset.
syncSheetStackState_KeepsRecord(w) ==
  ApplyAll(w, SnapshotsOf(w), w.participants)

syncSheetStackState(w) ==
  LET given == SnapshotsOf(w)
      topParticipant == getTopOpenSheetStackParticipant(w)
      stackDragProgress ==
        IF topParticipant # NoId /\ w.dragId = topParticipant
        THEN w.dragProgress ELSE 0
      w1 == IF stackDragProgress = 0
            THEN [w EXCEPT !.dragId = NoId, !.dragProgress = 0]
            ELSE w
      w2 == IF "syncs" \in w.observed
            THEN [w1 EXCEPT !.syncs = @ + 1] ELSE w1
  IN  ApplyAll(w2, given, w.participants)

\* Mutant of setSheetStackDragProgress: the progress is stored as given.
setSheetStackDragProgress_NoClamp(w, participantId, progress) ==
  IF w.dragId = participantId /\ w.dragProgress = progress
  THEN w
  ELSE syncSheetStackState(
         [w EXCEPT !.dragId = participantId, !.dragProgress = progress])

setSheetStackDragProgress(w, participantId, progress) ==
  LET clampedProgress == Max(0, Min(Unit, progress))
  IN  IF w.dragId = participantId /\ w.dragProgress = clampedProgress
      THEN w
      ELSE syncSheetStackState(
             [w EXCEPT !.dragId = participantId,
                       !.dragProgress = clampedProgress])

\* Mutant of clearSheetStackDragProgress: any id clears the record.
clearSheetStackDragProgress_AnyId(w, participantId) ==
  IF w.dragId = NoId /\ w.dragProgress = 0 THEN w
  ELSE syncSheetStackState([w EXCEPT !.dragId = NoId, !.dragProgress = 0])

clearSheetStackDragProgress(w, participantId) ==
  IF participantId # Undefined /\ w.dragId # participantId THEN w
  ELSE IF w.dragId = NoId /\ w.dragProgress = 0 THEN w
  ELSE syncSheetStackState([w EXCEPT !.dragId = NoId, !.dragProgress = 0])


\* ------------------------------------------------------ VanJS state writes

AppendNew(seq, x) ==
  IF \E k \in 1..Len(seq) : seq[k] = x THEN seq ELSE Append(seq, x)

\* `options.isOpen.val = v`, by `by` (a SheetReason for a write made by
\* setOpen, "host" for a write the host makes itself).  VanJS ignores a write
\* of the current value; otherwise it stores the value and, when the state
\* has listeners, adds it to the batch (and to derivedStates when a batch is
\* running).
SetVal(w, s, v, by) ==
  IF v = w.isOpen[s] THEN w
  ELSE LET w1 == [w EXCEPT
                     !.isOpen[s] = v,
                     !.cause[s] = IF "calls" \in w.observed THEN by ELSE @,
                     !.unreported[s] =
                       IF "transitions" \in w.observed THEN @ + 1 ELSE @,
                     !.lastOpened =
                       IF v /\ "order" \in w.observed THEN s ELSE @,
                     !.opens = IF v THEN @ + 1 ELSE @]
       IN  IF w.listeners[s] # << >>
           THEN [w1 EXCEPT !.changed = AppendNew(@, s),
                           !.derived = AppendNew(@, s)]
           ELSE [w1 EXCEPT !.oldVal[s] = v]

\* ------------------------------------------------------------- createSheet

isTopMostOpenSheet(w, i) ==
  w.isOpen[i] /\ isTopOpenSheetStackParticipant(w, i)

\* Mutant of setOpen: no check of dismissible.
setOpen_IgnoresDismissible(w, i, open, reason) ==
  IF open = w.isOpen[i] THEN w
  ELSE SetVal([w EXCEPT !.pendingReason[i] = reason], i, open, reason)

\* Mutant of setOpen: no check that the value differs.
setOpen_AlwaysAssigns(w, i, open, reason) ==
  IF ~open /\ ~w.dismissible[i] /\ reason # "api" THEN w
  ELSE SetVal([w EXCEPT !.pendingReason[i] = reason], i, open, reason)

setOpen(w, i, open, reason) ==
  IF ~open /\ ~w.dismissible[i] /\ reason # "api" THEN w
  ELSE IF open = w.isOpen[i] THEN w
  ELSE SetVal([w EXCEPT !.pendingReason[i] = reason], i, open, reason)

clearStackSnapshot(w, i) == [w EXCEPT !.stackDom[i] = NoSnap]

resetStackSnapshotRetainState(w, i) ==
  [w EXCEPT !.retain[i] = FALSE, !.schedule[i] = NoSchedule]

\* Mutant of finalizeStackSnapshotRetain: the schedule is not cleared.
finalizeStackSnapshotRetain_KeepsSchedule(w, i) ==
  LET w1 == EffectRuns([w EXCEPT !.retain[i] = FALSE], i, "retain")
  IN  IF ~w1.isOpen[i] THEN clearStackSnapshot(w1, i) ELSE w1

finalizeStackSnapshotRetain(w, i) ==
  LET w1 == EffectRuns([w EXCEPT !.schedule[i] = NoSchedule,
                                 !.retain[i] = FALSE], i, "retain")
  IN  IF ~w1.isOpen[i] THEN clearStackSnapshot(w1, i) ELSE w1

\* maybeFinalize of scheduleStackSnapshotRetainClear
maybeFinalize(w, i) ==
  IF w.isOpen[i] THEN w ELSE finalizeStackSnapshotRetain(w, i)

\* scheduleTransitionFallback: the previous schedule is cleared, then the
\* transitionend handler and the 550 ms timer are armed.
scheduleStackSnapshotRetainClear(w, i) ==
  Scheduled([w EXCEPT !.schedule[i] = [timeout |-> TRUE, handler |-> TRUE]],
            i, "retain")

\* panel.style.transform: none, or translateY(<value><unit>).
NoTransform == [unit |-> "", value |-> 0]
TranslateY(value, unit) == [unit |-> unit, value |-> value]

\* The panel as createSheet builds it: no inline transform, no dragging
\* marker on root, no once-listener of animatePanelTo on the panel.
NoPanelStyle ==
  [transform |-> NoTransform, dragging |-> FALSE, onceListener |-> FALSE]

\* panel.style.transform = transform
setPanelTransform(w, i, transform) ==
  IF "panel" \in w.observed
  THEN [w EXCEPT !.panelStyle[i].transform = transform] ELSE w

setDraggingVisualState(w, i, dragging) ==
  IF "panel" \in w.observed
  THEN [w EXCEPT !.panelStyle[i].dragging = dragging] ELSE w

applyDragOffset(w, i, offsetY) == setPanelTransform(w, i, TranslateY(offsetY, "px"))

\* The once-listeners all clear the transform, so one flag stands for any
\* number of them.
animatePanelTo(w, i, transform) ==
  IF "panel" \in w.observed
  THEN [w EXCEPT !.panelStyle[i].transform = transform,
                 !.panelStyle[i].onceListener = TRUE]
  ELSE w

\* A transitionend event reaches the panel: the once-listeners of
\* animatePanelTo run and are removed.
animatePanelToListener(w, i) ==
  IF w.panelStyle[i].onceListener
  THEN [w EXCEPT !.panelStyle[i].transform = NoTransform,
                 !.panelStyle[i].onceListener = FALSE]
  ELSE w

setBackdropOpenOpacity(w, i, opacity) ==
  [w EXCEPT !.backdropOpacity[i] = Max(0, Min(Unit, opacity))]

clearBackdropOpenOpacity(w, i) == [w EXCEPT !.backdropOpacity[i] = Removed]

\* measuredPanelHeight: panel.getBoundingClientRect().height at the call.
applyDragBackdropOpacity(w, i, offsetY, measuredPanelHeight) ==
  LET panelHeight == IF w.dragPanelHeight[i] # 0 THEN w.dragPanelHeight[i]
                     ELSE measuredPanelHeight
  IN  IF panelHeight <= 0 THEN setBackdropOpenOpacity(w, i, Unit)
      ELSE setBackdropOpenOpacity(w, i,
             Unit - Max(0, Min(Unit, Round(offsetY * Unit, panelHeight))))

\* ------------------------------------------------- mobile height engine

isMobileViewport(w) == w.mobile

clearMobileHeightState(w, i) ==
  [w EXCEPT !.mobileHeightState[i] = NoMobileHeightState]

stopReactiveViewportTracking(w, i) ==
  [w EXCEPT !.tracking[i].stopViewportTracking = FALSE]

clearScheduledMobileHeightUpdate(w, i) ==
  IF ~w.tracking[i].scheduledMobileHeightUpdateRaf THEN w
  ELSE [w EXCEPT !.tracking[i].scheduledMobileHeightUpdateRaf = FALSE,
                 !.tracking[i].mobileHeightUpdateFrames = @ - 1]

clearClosedPremeasureSchedule(w, i) ==
  [w EXCEPT !.tracking[i].scheduledClosedPremeasureRaf = FALSE]

updateAdjustableTrackingDataset(w, i) ==
  [w EXCEPT !.adjustableTracking[i] =
     /\ w.adjustableHeight[i] /\ w.adjustableTrackingReady[i]
     /\ w.isOpen[i] /\ isMobileViewport(w)]

resetAdjustableTracking(w, i) ==
  updateAdjustableTrackingDataset(
    [w EXCEPT !.adjustableTrackingStartSchedule[i] = NoSchedule,
              !.adjustableTrackingReady[i] = FALSE], i)

stopContentHeightTracking(w, i) ==
  [clearScheduledMobileHeightUpdate(w, i) EXCEPT
     !.tracking[i].contentObservers = FALSE]

stopMobileLifecycleTracking(w, i) ==
  stopContentHeightTracking(
    stopReactiveViewportTracking(
      clearClosedPremeasureSchedule(resetAdjustableTracking(w, i), i), i), i)

ensureContentHeightTracking(w, i) ==
  IF ~w.adjustableHeight[i] \/ ~w.isOpen[i] \/ ~isMobileViewport(w)
  THEN stopContentHeightTracking(w, i)
  ELSE [w EXCEPT !.tracking[i].contentObservers = TRUE]

getLayoutViewportHeight(w) == w.viewport.innerHeight

\* base: baseMobileViewportHeight at the call.
getDetectedKeyboardHeight(w, base) ==
  IF ~w.viewport.visual THEN 0
  ELSE LET visibleViewportBottom == w.viewport.height + w.viewport.offsetTop
           keyboardHeight ==
             Max(0, Round(base * HalfPx - visibleViewportBottom, HalfPx))
       IN  IF keyboardHeight <= KEYBOARD_CLOSED_EPSILON_PX THEN 0
           ELSE keyboardHeight

getViewportOffsetTop(w) ==
  IF ~w.viewport.visual THEN 0
  ELSE Max(0, Round(w.viewport.offsetTop, HalfPx))

\* getNaturalPanelHeight: the state after the call; the value it returns is
\* cachedNaturalPanelHeight of that state.
getNaturalPanelHeight(w, i) ==
  LET contentWidth == w.viewport.width
      dirty == \/ w.mobileHeightState[i].naturalPanelHeightDirty
               \/ (/\ contentWidth > 0
                   /\ contentWidth #
                        w.mobileHeightState[i].lastMeasuredScrollContentWidth)
  IN  IF ~dirty
      THEN w
      ELSE [w EXCEPT !.mobileHeightState[i].cachedNaturalPanelHeight =
                       Max(0, w.content[i]),
                     !.mobileHeightState[i].naturalPanelHeightDirty = FALSE,
                     !.mobileHeightState[i].lastMeasuredScrollContentWidth =
                       contentWidth]

\* Mutant of panelHeightOf: the natural height is not capped.
panelHeightOf_Uncapped(maxPanelHeight, ready, naturalPanelHeight) ==
  IF ready THEN naturalPanelHeight ELSE maxPanelHeight

\* panelHeight of updateMobileOpenHeight; ready: adjustableHeight &&
\* adjustableTrackingReady.
panelHeightOf(maxPanelHeight, ready, naturalPanelHeight) ==
  IF ready THEN Min(maxPanelHeight, naturalPanelHeight) ELSE maxPanelHeight

\* Mutant of viewportOffsetTopOf: the offset is applied without a keyboard.
viewportOffsetTopOf_Always(w, keyboardHeight) == getViewportOffsetTop(w)

\* viewportOffsetTop of updateMobileOpenHeight.
viewportOffsetTopOf(w, keyboardHeight) ==
  IF keyboardHeight > 0 THEN getViewportOffsetTop(w) ELSE 0

\* The writes of updateMobileOpenHeight, w being the state after the
\* natural height was read (when it is read).
writeMobileOpenHeight(w, i, base, keyboardHeight, ready) ==
  [w EXCEPT
     !.mobileHeightState[i].baseMobileViewportHeight = base,
     !.mobileHeightState[i].mobileHeight =
       panelHeightOf(
         Max(0, Round(base * MOBILE_SHEET_HEIGHT_RATIO, 100) - keyboardHeight),
         ready, w.mobileHeightState[i].cachedNaturalPanelHeight),
     !.mobileHeightState[i].keyboardHeight = keyboardHeight,
     !.mobileHeightState[i].rootOffsetY = viewportOffsetTopOf(w, keyboardHeight),
     !.mobileHeightState[i].bottom =
       keyboardHeight + viewportOffsetTopOf(w, keyboardHeight),
     !.mobileHeightState[i].keyboardOpen = keyboardHeight > 0]

\* baseMobileViewportHeight after the two updates at the top of
\* updateMobileOpenHeight.
\* Mutant of grownBase: the base is the layout height of the moment.
grownBase_Latest(w, i) == getLayoutViewportHeight(w)

grownBase(w, i) ==
  LET base == w.mobileHeightState[i].baseMobileViewportHeight
      captured == IF base = 0 THEN getLayoutViewportHeight(w) ELSE base
  IN  Max(captured, getLayoutViewportHeight(w))

updateMobileOpenHeight(w, i) ==
  IF ~w.isOpen[i] \/ ~isMobileViewport(w) THEN w
  ELSE IF w.adjustableHeight[i] /\ w.adjustableTrackingReady[i]
  THEN writeMobileOpenHeight(getNaturalPanelHeight(w, i), i, grownBase(w, i),
                             getDetectedKeyboardHeight(w, grownBase(w, i)),
                             TRUE)
  ELSE writeMobileOpenHeight(w, i, grownBase(w, i),
                             getDetectedKeyboardHeight(w, grownBase(w, i)),
                             FALSE)

startAdjustableTracking(w, i) ==
  LET w1 == [w EXCEPT !.adjustableTrackingStartSchedule[i] = NoSchedule]
  IN  IF ~w.adjustableHeight[i] \/ ~w.isOpen[i] \/ ~isMobileViewport(w)
      THEN w1
      ELSE IF w.adjustableTrackingReady[i] THEN w1
      ELSE ensureContentHeightTracking(
             updateAdjustableTrackingDataset(
               updateMobileOpenHeight(
                 EffectRuns(
                   [w EXCEPT
                      !.adjustableTrackingStartSchedule[i] = NoSchedule,
                      !.adjustableTrackingReady[i] = TRUE,
                      !.mobileHeightState[i].naturalPanelHeightDirty = TRUE],
                   i, "adjustable"),
                 i), i), i)

scheduleAdjustableTrackingStart(w, i) ==
  IF \/ ~w.adjustableHeight[i] \/ w.adjustableTrackingReady[i]
     \/ ~w.isOpen[i] \/ ~isMobileViewport(w)
  THEN w
  ELSE Scheduled([w EXCEPT !.adjustableTrackingStartSchedule[i] = Armed],
                 i, "adjustable")

scheduleClosedAdjustablePremeasure(w, i) ==
  IF \/ ~w.adjustableHeight[i] \/ w.isOpen[i] \/ ~isMobileViewport(w)
     \/ w.tracking[i].scheduledClosedPremeasureRaf
  THEN w
  ELSE [w EXCEPT !.tracking[i].scheduledClosedPremeasureRaf = TRUE]

\* The animation-frame callback of scheduleClosedAdjustablePremeasure.
closedPremeasure(w, i) ==
  LET w1 == [w EXCEPT !.tracking[i].scheduledClosedPremeasureRaf = FALSE]
  IN  IF ~w.adjustableHeight[i] \/ w.isOpen[i] \/ ~isMobileViewport(w)
      THEN w1
      ELSE getNaturalPanelHeight(
             [w EXCEPT !.tracking[i].scheduledClosedPremeasureRaf = FALSE,
                       !.mobileHeightState[i].naturalPanelHeightDirty = TRUE],
             i)

clearDragCloseStateClearSchedule(w, i) ==
  [w EXCEPT !.dragCloseStateClearSchedule[i] = NoSchedule]

finalizeDragCloseStateClear(w, i) ==
  scheduleClosedAdjustablePremeasure(
    clearMobileHeightState(
      EffectRuns([w EXCEPT !.dragCloseStateClearSchedule[i] = NoSchedule,
                           !.shouldDeferCloseStateClear[i] = FALSE],
                 i, "dragClose"), i), i)

\* Mutant of maybeFinalizeDragClose: the clear happens on an open sheet too.
maybeFinalizeDragClose_IgnoresOpen(w, i) == finalizeDragCloseStateClear(w, i)

\* maybeFinalize of scheduleDragCloseStateClear
maybeFinalizeDragClose(w, i) ==
  IF w.isOpen[i] THEN w ELSE finalizeDragCloseStateClear(w, i)

scheduleDragCloseStateClear(w, i) ==
  Scheduled([w EXCEPT !.dragCloseStateClearSchedule[i] = Armed],
            i, "dragClose")

\* Mutant of scheduleMobileOpenHeightUpdate: every call requests a frame.
scheduleMobileOpenHeightUpdate_EveryCall(w, i) ==
  [w EXCEPT !.tracking[i].scheduledMobileHeightUpdateRaf = TRUE,
            !.tracking[i].mobileHeightUpdateFrames = @ + 1]

scheduleMobileOpenHeightUpdate(w, i) ==
  IF w.tracking[i].scheduledMobileHeightUpdateRaf THEN w
  ELSE [w EXCEPT !.tracking[i].scheduledMobileHeightUpdateRaf = TRUE,
                 !.tracking[i].mobileHeightUpdateFrames = @ + 1]

handleContentSizeChange(w, i) ==
  scheduleMobileOpenHeightUpdate(
    [w EXCEPT !.mobileHeightState[i].naturalPanelHeightDirty = TRUE], i)

ensureReactiveViewportTracking(w, i) ==
  IF ~w.viewport.visual \/ w.tracking[i].stopViewportTracking THEN w
  ELSE [w EXCEPT !.tracking[i].stopViewportTracking = TRUE]

applyMobileClosedHeight(w, i, open) ==
  IF /\ w.shouldDeferCloseStateClear[i] /\ w.adjustableHeight[i]
     /\ isMobileViewport(w)
  THEN scheduleDragCloseStateClear(stopMobileLifecycleTracking(w, i), i)
  ELSE IF open
  THEN clearMobileHeightState(
         [stopMobileLifecycleTracking(w, i) EXCEPT
            !.dragCloseStateClearSchedule[i] = NoSchedule,
            !.shouldDeferCloseStateClear[i] = FALSE], i)
  ELSE scheduleClosedAdjustablePremeasure(
         clearMobileHeightState(
           [stopMobileLifecycleTracking(w, i) EXCEPT
              !.dragCloseStateClearSchedule[i] = NoSchedule,
              !.shouldDeferCloseStateClear[i] = FALSE], i), i)

\* The content observers are attached on an open sheet unless adjustable
\* tracking has not started yet.
trackContentWhenReady(w, i) ==
  IF w.adjustableHeight[i] /\ ~w.adjustableTrackingReady[i]
  THEN stopContentHeightTracking(w, i)
  ELSE ensureContentHeightTracking(w, i)

applyMobileOpenHeight(w, i, open) ==
  IF ~open \/ ~isMobileViewport(w) THEN applyMobileClosedHeight(w, i, open)
  ELSE updateMobileOpenHeight(
         trackContentWhenReady(
           ensureReactiveViewportTracking(
             clearClosedPremeasureSchedule(
               [w EXCEPT !.dragCloseStateClearSchedule[i] = NoSchedule,
                         !.shouldDeferCloseStateClear[i] = FALSE], i), i),
           i), i)

\* The end of syncOpenState: the backdrop opacity.
syncBackdrop(w, i, open) ==
  IF open
  THEN setPanelTransform(setBackdropOpenOpacity(w, i, Unit), i, NoTransform)
  ELSE clearBackdropOpenOpacity(w, i)

syncOpenState(w, i, open) ==
  syncBackdrop(
    updateAdjustableTrackingDataset(
      applyMobileOpenHeight(
        [w EXCEPT !.rootState[i] = IF open THEN "open" ELSE "closed"],
        i, open), i),
    i, open)

\* No instance, no onOpenChange call yet.
NoReport == [initial |-> FALSE, last |-> "none"]

\* What the host does inside onOpenChange (on the same instance).
Reactions ==
  {[kind |-> "none", reason |-> "api", value |-> FALSE]}
    \cup {[kind |-> "open", reason |-> "api", value |-> TRUE]}
    \cup {[kind |-> "close", reason |-> "backdrop", value |-> FALSE]}
    \cup {[kind |-> "set", reason |-> "api", value |-> b] : b \in BOOLEAN}

\* The host is openOptionSheet: its callback runs inside onOpenChange.
OptionSheetReaction == [kind |-> "optionSheet", reason |-> "api", value |-> FALSE]

NoReaction == [kind |-> "none", reason |-> "api", value |-> FALSE]

HostReaction(w, i, reaction) ==
  CASE reaction.kind = "none" -> w
    [] reaction.kind = "open" -> setOpen(w, i, TRUE, "api")
    [] reaction.kind = "close" -> setOpen(w, i, FALSE, reaction.reason)
    [] reaction.kind = "set" -> SetVal(w, i, reaction.value, "host")

\* Does the reaction execute an assignment to options.isOpen.val (of any
\* value)?  setOpen returns before the assignment when it refuses the
\* request or the value is the current one.
ReactionWrites(w, i, reaction) ==
  CASE reaction.kind = "none" -> FALSE
    [] reaction.kind = "open" -> ~w.isOpen[i]
    [] reaction.kind = "close" ->
         /\ w.dismissible[i] \/ reaction.reason = "api"
         /\ w.isOpen[i]
    [] reaction.kind = "set" -> TRUE
    [] reaction.kind = "optionSheet" -> FALSE

\* options.onOpenChange?.(open, reason): the call is recorded, with what
\* caused the latest write of the flag and whether the instance's root and
\* the stack had been resynchronized when it was made; then the host reacts.
onOpenChange(w, i, open, reason, reaction) ==
  LET synced == /\ w.rootState[i] = (IF open THEN "open" ELSE "closed")
                /\ w = syncSheetStackState(w)
      entry == [open |-> open, reason |-> reason, cause |-> w.cause[i],
                synced |-> synced]
      w0 == IF "calls" \in w.observed
            THEN [w EXCEPT !.calls[i] = Append(@, entry)] ELSE w
      w2 == IF "transitions" \in w.observed
            THEN [w0 EXCEPT !.unreported[i] = @ - 1] ELSE w0
      w1 == IF "history" \in w.observed
            THEN [w2 EXCEPT !.reported[i].last =
                              IF open THEN "open" ELSE "closed"]
            ELSE w2
  IN  IF reaction.kind = "optionSheet"
      THEN optionSheetOnOpenChange(w1, open, reason)
      ELSE IF i \in w.reacted THEN w1
      ELSE HostReaction([w1 EXCEPT !.reacted = @ \cup {i}], i, reaction)

\* stateSync up to its second sync: an opening claims the next open-order
\* and drops the retain state, a closing arms the retain schedule; then the
\* root and the stack are resynchronized.
\* The edge branches at the top of stateSync.
\* Mutant of stateSyncEdge: an open flag counts as just opened.
stateSyncEdge_AlwaysOpened(w, i) ==
  IF w.isOpen[i]
  THEN [resetStackSnapshotRetainState(
          [w EXCEPT !.openOrder[i] = w.nextOrder,
                    !.nextOrder = @ + 1,
                    !.shouldDeferCloseStateClear[i] = FALSE], i)
          EXCEPT !.adjustableTrackingReady[i] = FALSE]
  ELSE w

stateSyncEdge(w, i) ==
  LET currentOpen == w.isOpen[i]
      justOpened == currentOpen /\ ~w.previousOpen[i]
      justClosed == ~currentOpen /\ w.previousOpen[i]
  IN  IF justOpened
      THEN [resetStackSnapshotRetainState(
              [w EXCEPT !.openOrder[i] = w.nextOrder,
                        !.nextOrder = @ + 1,
                        !.shouldDeferCloseStateClear[i] = FALSE], i)
              EXCEPT !.adjustableTrackingReady[i] = FALSE]
      ELSE IF justClosed
      THEN resetAdjustableTracking(
             scheduleStackSnapshotRetainClear(
               [w EXCEPT !.shouldDeferCloseStateClear[i] =
                           w.adjustableHeight[i] /\ isMobileViewport(w),
                         !.retain[i] = TRUE], i), i)
      ELSE w

\* if (opened && adjustableHeight && isMobileViewport())
\*   scheduleAdjustableTrackingStart()
scheduleAfterOpen(w, i, opened) ==
  IF opened /\ w.adjustableHeight[i] /\ isMobileViewport(w)
  THEN scheduleAdjustableTrackingStart(w, i)
  ELSE w

stateSyncResync(w, i) ==
  syncSheetStackState(
    scheduleAfterOpen(
      syncOpenState(stateSyncEdge(w, i), i, w.isOpen[i]),
      i, w.isOpen[i] /\ ~w.previousOpen[i]))

\* Mutant of stateSyncRecord: previousOpen is not updated.
stateSyncRecord_KeepsPrevious(w, i, currentOpen) ==
  [w EXCEPT !.pendingReason[i] = "api"]

\* The two assignments that follow the onOpenChange call.
stateSyncRecord(w, i, currentOpen) ==
  [w EXCEPT !.previousOpen[i] = currentOpen, !.pendingReason[i] = "api"]

\* stateSync from the comparison with previousOpen on; neither the flag nor
\* previousOpen has been written since currentOpen was read.
stateSyncNotify(w, i, reaction) ==
  IF w.isOpen[i] = w.previousOpen[i] THEN w
  ELSE stateSyncRecord(
         onOpenChange(w, i, w.isOpen[i], w.pendingReason[i], reaction),
         i, w.isOpen[i])

\* The body of the van.derive `stateSync`.
stateSync(w, i, reaction) ==
  stateSyncNotify(stateSyncResync(w, i), i, reaction)


\* --------------------------------------------------- VanJS derive and batch

Without(seq, x) == SelectSeq(seq, LAMBDA y : y # x)

RECURSIVE Subscribe(_, _, _)
Subscribe(ls, i, todo) ==
  IF todo = {} THEN ls
  ELSE LET s == CHOOSE x \in todo : TRUE
       IN  Subscribe([ls EXCEPT ![s] = Append(@, i)], i, todo \ {s})

\* The listener of the previous run of the derive of i is dropped and the
\* new one is attached to every state in `states`.
Resubscribe(w, i, states) ==
  [w EXCEPT !.listeners =
     Subscribe([s \in Ids |-> Without(w.listeners[s], i)], i, states)]

\* One run of the derive of instance i.  VanJS records the states the run
\* reads (its own flag at the top of stateSync; the flag of every registered
\* participant inside syncSheetStackState) and the states it assigns, and
\* attaches the new listener to every state read and not assigned.
RunDerive(w, i, reaction) ==
  LET called == w.isOpen[i] # w.previousOpen[i]
      answered == called /\ i \notin w.reacted
      getters == {i} \cup w.participants
      setters == IF answered /\ ReactionWrites(w, i, reaction)
                 THEN {i} ELSE {}
  IN  Resubscribe(stateSync(w, i, reaction), i, getters \ setters)

RECURSIVE ListenersOf(_, _)
ListenersOf(w, states) ==
  IF states = << >> THEN << >>
  ELSE LET rest == ListenersOf(w, Tail(states))
           mine == w.listeners[Head(states)]
       IN  mine \o SelectSeq(rest,
                     LAMBDA l : ~\E k \in 1..Len(mine) : mine[k] = l)

RECURSIVE RunQueue(_, _, _)
RunQueue(w, queue, react) ==
  IF queue = << >> THEN w
  ELSE RunQueue(RunDerive(w, Head(queue), react[Head(queue)]),
                Tail(queue), react)

\* The do-while of VanJS's updateDoms: run the listeners of the states that
\* changed, then the listeners of the states those runs changed, and so on.
RECURSIVE RunBatch(_, _, _)
RECURSIVE RunNext(_, _)
RunBatch(w, states, react) ==
  RunNext(RunQueue([w EXCEPT !.derived = << >>], ListenersOf(w, states),
                   react),
          react)

RunNext(w, react) ==
  IF w.derived = << >> THEN w ELSE RunBatch(w, w.derived, react)

\* The end of updateDoms: every changed state's old value is set and the
\* set of changed states is dropped.
Settle(w) ==
  LET settled == { w.changed[k] : k \in 1..Len(w.changed) }
  IN  [w EXCEPT !.oldVal = [s \in Ids |->
                              IF s \in settled THEN w.isOpen[s] ELSE @[s]],
                !.changed = << >>,
                !.derived = << >>,
                !.reacted = {}]

updateDoms(w, react) ==
  Settle(RunBatch(w,
                  SelectSeq(w.changed, LAMBDA s : w.isOpen[s] # w.oldVal[s]),
                  react))

\* ------------------------------------------------- construction, destroy

\* An optional option is the empty set when undefined and the set of its
\* value when provided.
\* Mutant of normalizeSections: one scroll section or more is accepted.
normalizeSections_AtLeastOne(options) ==
  IF options.content # {} /\ options.sections # {}
  THEN [error |-> "both", sections |-> << >>]
  ELSE IF options.content = {} /\ options.sections = {}
  THEN [error |-> "neither", sections |-> << >>]
  ELSE IF options.content # {}
  THEN [error |-> NoError, sections |-> << [scroll |-> "true"] >>]
  ELSE LET sections == CHOOSE x \in options.sections : TRUE
       IN  IF Len(SelectSeq(sections, LAMBDA x : x.scroll = "true")) < 1
           THEN [error |-> "scroll-count", sections |-> << >>]
           ELSE [error |-> NoError, sections |-> sections]

\* normalizeSections(options): the sections, or the error it throws.
normalizeSections(options) ==
  IF options.content # {} /\ options.sections # {}
  THEN [error |-> "both", sections |-> << >>]
  ELSE IF options.content = {} /\ options.sections = {}
  THEN [error |-> "neither", sections |-> << >>]
  ELSE IF options.content # {}
  THEN [error |-> NoError, sections |-> << [scroll |-> "true"] >>]
  ELSE LET sections == CHOOSE x \in options.sections : TRUE
       IN  IF Len(SelectSeq(sections, LAMBDA x : x.scroll = "true")) # 1
           THEN [error |-> "scroll-count", sections |-> << >>]
           ELSE [error |-> NoError, sections |-> sections]

\* The section elements createSheet builds: the data-vsheet-scroll attribute
\* of each.
sectionElements(resolvedSections) ==
  [k \in DOMAIN resolvedSections |-> resolvedSections[k].scroll = "true"]

\* createSheet(options) with a fresh state options.isOpen = van.state(open):
\* the options are validated, the root is built and appended to the mount
\* target, the instance is registered and synchronized, the derive is run.
createSheet(w, open, options) ==
  IF normalizeSections(options).error # NoError
  THEN [w EXCEPT !.thrown = normalizeSections(options).error]
  ELSE IF \A k \in DOMAIN normalizeSections(options).sections :
            ~sectionElements(normalizeSections(options).sections)[k]
  THEN [w EXCEPT !.thrown = "no-scroll-section"]
  ELSE
  LET i == w.nextId
      w1 == [w EXCEPT
               !.sectionsElement[i] =
                 sectionElements(normalizeSections(options).sections),
               !.isOpen[i] = open, !.oldVal[i] = open,
               !.reported[i] =
                 IF "history" \in w.observed
                 THEN [initial |-> open, last |-> "none"] ELSE @,
               !.dismissible[i] = options.dismissible,
               !.closeOnBackdrop[i] = options.closeOnBackdrop,
               !.closeOnEscape[i] = options.closeOnEscape,
               !.adjustableHeight[i] = options.adjustableHeight,
               !.pendingReason[i] = "api",
               !.previousOpen[i] = open,
               !.openOrder[i] = IF open THEN w.nextOrder ELSE 0,
               !.nextOrder = IF open THEN @ + 1 ELSE @,
               !.lastOpened =
                 IF open /\ "order" \in w.observed THEN i ELSE @,
               !.opens = IF open THEN @ + 1 ELSE @,
               !.nextId = @ + 1,
               !.status[i] = "live"]
      w2 == [w1 EXCEPT !.participants = @ \cup {i}]
      w3 == syncSheetStackState(
              scheduleAfterOpen(syncOpenState(w2, i, open), i, open))
  IN  RunDerive(w3, i, NoReaction)

\* The instance's own cleanup at the top of destroy.
destroyLocal(w, i) ==
  clearMobileHeightState(
    clearDragCloseStateClearSchedule(
      stopMobileLifecycleTracking(resetStackSnapshotRetainState(w, i), i),
      i), i)

\* Mutant of destroy: the coordinator is not told to drop the drag record
\* and is not resynchronized.
destroy_KeepsDragRecord(w, i) ==
  clearStackSnapshot(
    [destroyLocal(w, i) EXCEPT
       !.status[i] = "destroyed", !.participants = @ \ {i}], i)

\* Mutant of destroy: the stack is resynchronized before the instance is
\* unregistered instead of after.
destroy_SyncBeforeUnregister(w, i) ==
  clearStackSnapshot(
    clearSheetStackDragProgress(
      [syncSheetStackState(destroyLocal(w, i)) EXCEPT
         !.status[i] = "destroyed", !.participants = @ \ {i}], i), i)

destroy(w, i) ==
  LET w1 == destroyLocal(w, i)
      w2 == [w1 EXCEPT !.status[i] = "destroyed",
                       !.participants = @ \ {i}]
      w3 == clearSheetStackDragProgress(w2, i)
  IN  syncSheetStackState(clearStackSnapshot(w3, i))

\* settleDestroy of the k-th destroyAfterCloseAnimation call.
settleDestroy(w, k) ==
  LET schedule == w.optionSheet.destroySchedules[k]
      closingSheet == schedule.closingSheet
  IN  IF schedule.settledDestroy THEN w
      ELSE [destroy(w, closingSheet) EXCEPT
              !.optionSheet.destroySchedules[k].settledDestroy = TRUE,
              !.optionSheet.destroyCalls = @ + 1,
              !.optionSheet.sheet =
                IF @ = closingSheet THEN NoId ELSE @]

\* --------------------------------------------------------- event handlers

handleBackdropClick(w, i) ==
  IF ~isTopMostOpenSheet(w, i) THEN w
  ELSE IF ~w.closeOnBackdrop[i] THEN w
  ELSE setOpen(w, i, FALSE, "backdrop")

handleCloseButtonClick(w, i) == setOpen(w, i, FALSE, "close-button")

\* Mutant of handleEscape: no check of closeOnEscape.
handleEscape_IgnoresSwitch(w, i, key) ==
  IF key # "Escape" THEN w
  ELSE IF ~isTopMostOpenSheet(w, i) THEN w
  ELSE setOpen(w, i, FALSE, "escape")

handleEscape(w, i, key) ==
  IF key # "Escape" THEN w
  ELSE IF ~w.closeOnEscape[i] \/ ~isTopMostOpenSheet(w, i) THEN w
  ELSE setOpen(w, i, FALSE, "escape")

\* document.dispatchEvent(keydown): every instance that has not been
\* destroyed has a listener on document; they run in the order they were
\* added, the order of construction.
RECURSIVE DispatchKeydown(_, _, _)
DispatchKeydown(w, key, todo) ==
  IF todo = {} THEN w
  ELSE LET i == CHOOSE x \in todo : \A y \in todo : x <= y
       IN  DispatchKeydown(handleEscape(w, i, key), key, todo \ {i})

getStackDragProgressDistance(w, i, measuredPanelHeight) ==
  IF w.dragPanelHeight[i] > 0 THEN w.dragPanelHeight[i]
  ELSE IF measuredPanelHeight > 0 THEN measuredPanelHeight
  ELSE DRAG_CLOSE_THRESHOLD_PX

\* touches: event.touches.length; interactive: the target is inside a control
\* other than the backdrop; scrolled: a scrollable ancestor has scrollTop > 0;
\* height: panel.getBoundingClientRect().height.
\* An element between the touch target and the panel, as the handler reads
\* it: computed overflow-y, scroll and client extents, scroll position.
Element(overflowY, scrollHeight, clientHeight, scrollTop) ==
  [overflowY |-> overflowY, scrollHeight |-> scrollHeight,
   clientHeight |-> clientHeight, scrollTop |-> scrollTop]
Plain == Element("visible", 200, 200, 0)
ScrollerAtTop == Element("auto", 400, 200, 0)
ScrollerScrolled == Element("auto", 400, 200, 40)

\* A touch target: `closest` is what target.closest(<interactive selector>)
\* finds ("none", a "control", or the "backdrop" button), `path` the elements
\* from the target up to, not including, the panel.
TouchTarget(closest, path) == [closest |-> closest, path |-> path]
TouchTargets ==
  {TouchTarget("none", << >>), TouchTarget("control", << >>),
   TouchTarget("backdrop", << >>),
   TouchTarget("none", <<ScrollerAtTop>>),
   TouchTarget("none", <<Plain, ScrollerScrolled>>),
   TouchTarget("none", <<ScrollerAtTop, ScrollerScrolled>>)}

isElementScrollableY(element) ==
  /\ element.overflowY \in {"auto", "scroll"}
  /\ element.scrollHeight > element.clientHeight

\* The first scrollable element of the path, or null (found = FALSE).
findScrollableAncestor(path) ==
  LET scrollable == {k \in 1..Len(path) : isElementScrollableY(path[k])}
  IN  IF scrollable = {} THEN [found |-> FALSE, scrollTop |-> 0]
      ELSE LET k == CHOOSE x \in scrollable : \A y \in scrollable : x <= y
           IN  [found |-> TRUE, scrollTop |-> path[k].scrollTop]

handleTouchStart(w, i, touches, target, height) ==
  IF ~w.isOpen[i] \/ ~w.mobile \/ ~isTopMostOpenSheet(w, i) THEN w
  ELSE IF touches # 1 THEN w
  ELSE IF target.closest = "control" THEN w
  ELSE IF findScrollableAncestor(target.path).found
          /\ findScrollableAncestor(target.path).scrollTop > 0 THEN w
  ELSE clearSheetStackDragProgress(
         [w EXCEPT !.isTouchTracking[i] = TRUE,
                   !.dragOffsetY[i] = 0,
                   !.dragPanelHeight[i] = height,
                   !.isDragging[i] = FALSE], i)

\* present: event.touches holds the tracked touch; deltaY: its clientY minus
\* dragStartY; height: the panel height measured during the move.
handleTouchMove(w, i, present, deltaY, height) ==
  IF ~w.isTouchTracking[i] THEN w
  ELSE IF ~present THEN w
  ELSE IF deltaY <= 0
  THEN IF w.isDragging[i]
       THEN setSheetStackDragProgress(
              applyDragBackdropOpacity(
                applyDragOffset([w EXCEPT !.dragOffsetY[i] = 0], i, 0), i, 0,
                height),
              i, 0)
       ELSE w
  ELSE setSheetStackDragProgress(
         applyDragBackdropOpacity(
           applyDragOffset(
             setDraggingVisualState(
               [w EXCEPT !.isDragging[i] = TRUE, !.dragOffsetY[i] = deltaY],
               i, TRUE),
             i, deltaY),
           i, deltaY, height),
         i, (deltaY * Unit) \div getStackDragProgressDistance(w, i, height))

\* Mutant of handleTouchEnd: a release exactly at the threshold snaps back.
handleTouchEnd_StrictThreshold(w, i) ==
  IF ~w.isTouchTracking[i] THEN w
  ELSE LET w1 == [w EXCEPT !.isTouchTracking[i] = FALSE]
           rest(x) == [x EXCEPT !.dragOffsetY[i] = 0,
                                !.dragPanelHeight[i] = 0]
       IN  IF ~w1.isDragging[i]
           THEN clearSheetStackDragProgress(rest(w1), i)
           ELSE LET w2 == clearSheetStackDragProgress(
                            setDraggingVisualState(
                              [w1 EXCEPT !.isDragging[i] = FALSE], i, FALSE),
                            i)
                IN  IF w2.dragOffsetY[i] > DRAG_CLOSE_THRESHOLD_PX
                    THEN rest(setOpen(
                                animatePanelTo(w2, i, TranslateY(100, "%")),
                                i, FALSE, "drag"))
                    ELSE rest(animatePanelTo(
                                setBackdropOpenOpacity(w2, i, Unit), i,
                                TranslateY(0, "px")))

handleTouchEnd(w, i) ==
  IF ~w.isTouchTracking[i] THEN w
  ELSE LET w1 == [w EXCEPT !.isTouchTracking[i] = FALSE]
           rest(x) == [x EXCEPT !.dragOffsetY[i] = 0,
                                !.dragPanelHeight[i] = 0]
       IN  IF ~w1.isDragging[i]
           THEN clearSheetStackDragProgress(rest(w1), i)
           ELSE LET w2 == clearSheetStackDragProgress(
                            setDraggingVisualState(
                              [w1 EXCEPT !.isDragging[i] = FALSE], i, FALSE),
                            i)
                IN  IF w2.dragOffsetY[i] >= DRAG_CLOSE_THRESHOLD_PX
                    THEN rest(setOpen(
                                animatePanelTo(w2, i, TranslateY(100, "%")),
                                i, FALSE, "drag"))
                    ELSE rest(animatePanelTo(
                                setBackdropOpenOpacity(w2, i, Unit), i,
                                TranslateY(0, "px")))

\* The transitionend handler of the retain schedule.
retainTransitionHandler(w, i) ==
  IF w.schedule[i].handler THEN maybeFinalize(w, i) ELSE w

\* The transitionend handler of the drag-close schedule.
dragCloseTransitionHandler(w, i) ==
  IF w.dragCloseStateClearSchedule[i].handler
  THEN maybeFinalizeDragClose(w, i) ELSE w

\* Mutant of adjustableTransitionHandler: every transitionend starts
\* adjustable tracking.
adjustableTransitionHandler_AnyEvent(w, i, event) ==
  IF w.adjustableTrackingStartSchedule[i].handler
  THEN startAdjustableTracking(w, i) ELSE w

\* The transitionend handler of the adjustable-tracking schedule: it acts
\* on the end of the panel's own transform transition only.
adjustableTransitionHandler(w, i, event) ==
  IF /\ w.adjustableTrackingStartSchedule[i].handler
     /\ event.onPanel /\ event.propertyName = "transform"
  THEN startAdjustableTracking(w, i) ELSE w

\* A transitionend event reaches the panel of i (event.onPanel: the panel is
\* its target, otherwise it bubbled up from a descendant).
handleTransitionEnd(w, i, event) ==
  animatePanelToListener(
    adjustableTransitionHandler(
      dragCloseTransitionHandler(retainTransitionHandler(w, i), i), i, event),
    i)

\* The 550 ms timer of the retain schedule fires.
handleRetainTimeout(w, i) ==
  maybeFinalize([w EXCEPT !.schedule[i].timeout = FALSE], i)

\* The 550 ms timer of the drag-close schedule fires.
handleDragCloseTimeout(w, i) ==
  maybeFinalizeDragClose(
    [w EXCEPT !.dragCloseStateClearSchedule[i].timeout = FALSE], i)

\* The 550 ms timer of the adjustable-tracking schedule fires.
handleAdjustableTimeout(w, i) ==
  startAdjustableTracking(
    [w EXCEPT !.adjustableTrackingStartSchedule[i].timeout = FALSE], i)

\* The animation-frame callback of scheduleMobileOpenHeightUpdate.
mobileHeightUpdateFrame(w, i) ==
  updateMobileOpenHeight(
    [w EXCEPT !.tracking[i].scheduledMobileHeightUpdateRaf = FALSE,
              !.tracking[i].mobileHeightUpdateFrames = @ - 1], i)

\* An animation frame: the callbacks instance i has requested run.
handleAnimationFrame(w, i) ==
  IF w.tracking[i].scheduledMobileHeightUpdateRaf
  THEN mobileHeightUpdateFrame(w, i)
  ELSE IF w.tracking[i].scheduledClosedPremeasureRaf
  THEN closedPremeasure(w, i)
  ELSE w

\* A resize or scroll event of window.visualViewport: the instances that
\* listen to it run updateMobileOpenHeight.
RECURSIVE DispatchViewportChange(_, _)
DispatchViewportChange(w, todo) ==
  IF todo = {} THEN w
  ELSE LET i == CHOOSE x \in todo : \A y \in todo : x <= y
       IN  DispatchViewportChange(
             IF w.tracking[i].stopViewportTracking
             THEN updateMobileOpenHeight(w, i) ELSE w,
             todo \ {i})

\* The content of sheet i changes: a measurement now returns `height`; the
\* observers, when attached, call handleContentSizeChange.
contentChanged(w, i, height) ==
  IF w.tracking[i].contentObservers
  THEN handleContentSizeChange([w EXCEPT !.content[i] = height], i)
  ELSE [w EXCEPT !.content[i] = height]


\* ------------------------------------------------------------ inputs, Init

Keys == {"Escape", "Enter"}
PanelHeights == {0, 300}         \* 0: no layout (the 150 px fallback applies)
Deltas == {-10, 75, 150}         \* finger displacement since touch start
TouchCounts == {1, 2}

\* The sheets of every specification but the last are given `content`.
Options ==
  [dismissible : BOOLEAN, closeOnBackdrop : BOOLEAN, closeOnEscape : BOOLEAN,
   adjustableHeight : {FALSE}, content : {{"content"}}, sections : {{}}]
DefaultOptions ==
  [dismissible |-> TRUE, closeOnBackdrop |-> TRUE, closeOnEscape |-> TRUE,
   adjustableHeight |-> FALSE, content |-> {"content"}, sections |-> {}]
HeightOptions ==
  [dismissible : {TRUE}, closeOnBackdrop : {TRUE}, closeOnEscape : {TRUE},
   adjustableHeight : BOOLEAN, content : {{"content"}}, sections : {{}}]

\* options.sections[k].scroll; content, sections: undefined or provided.
ScrollFlags == {"true", "false", "undefined"}
SectionLists ==
  UNION { [1..n -> [scroll : ScrollFlags]] : n \in 0..MaxSections }
ConstructOptions ==
  [dismissible : {TRUE}, closeOnBackdrop : {TRUE}, closeOnEscape : {TRUE},
   adjustableHeight : {FALSE}, content : {{}, {"content"}},
   sections : {{}} \cup { {x} : x \in SectionLists }]

\* window.innerHeight in px; the visual viewport's height and offsetTop in
\* halves of a pixel; width: the client width of the scroll section.
Viewport(innerHeight, height, offsetTop) ==
  [innerHeight |-> innerHeight, visual |-> TRUE, height |-> height,
   offsetTop |-> offsetTop, width |-> 320]
NoVisualViewport ==
  [innerHeight |-> 1000, visual |-> FALSE, height |-> 0, offsetTop |-> 0,
   width |-> 320]
DefaultViewport == Viewport(1000, 2000, 0)
Viewports ==
  { DefaultViewport,
    Viewport(1000, 1400, 0),       \* keyboard: 700 px visible
    Viewport(1000, 1400, 240),     \* keyboard, page scrolled by 120 px
    Viewport(1000, 1399, 241),     \* 699.5 px visible at offset 120.5 px
    Viewport(1000, 1998, 0),       \* 1 px short of the base
    Viewport(1000, 1400, -20),     \* offset -10 px
    Viewport(1000, 1760, 240),     \* zoomed in and scrolled, no keyboard
    Viewport(1200, 2400, 0),       \* the layout viewport grew
    NoVisualViewport }
DefaultContent == 400
NaturalHeights == {DefaultContent, 1200}
TransitionEvents ==
  [onPanel : BOOLEAN, propertyName : {"transform", "opacity"}]

Op(op, id, arg) == [op |-> op, id |-> id, arg |-> arg]

Created == { i \in Ids : status[i] # "none" }
Live == { i \in Ids : status[i] = "live" }

\* No sheet constructed yet; the host's options and the viewport are drawn
\* from the given sets.
InitEnv(optionSet, mobileSet, recorded, viewportSet) ==
  /\ sheetStackParticipants = {}
  /\ nextSheetStackParticipantId = 1
  /\ nextSheetStackOpenOrder = 1
  /\ activeStackDragParticipantId = NoId
  /\ activeStackDragProgress = 0
  /\ isOpen = [i \in Ids |-> FALSE]
  /\ oldVal = [i \in Ids |-> FALSE]
  /\ listeners = [i \in Ids |-> << >>]
  /\ changedStates = << >>
  /\ status = [i \in Ids |-> "none"]
  /\ dismissible = [i \in Ids |-> TRUE]
  /\ closeOnBackdrop = [i \in Ids |-> TRUE]
  /\ closeOnEscape = [i \in Ids |-> TRUE]
  /\ pendingReason = [i \in Ids |-> "api"]
  /\ previousOpen = [i \in Ids |-> FALSE]
  /\ openOrder = [i \in Ids |-> 0]
  /\ retainStackSnapshotWhileClosed = [i \in Ids |-> FALSE]
  /\ stackSnapshotRetainSchedule = [i \in Ids |-> NoSchedule]
  /\ rootState = [i \in Ids |-> "closed"]
  /\ stackDom = [i \in Ids |-> NoSnap]
  /\ isTouchTracking = [i \in Ids |-> FALSE]
  /\ isDragging = [i \in Ids |-> FALSE]
  /\ dragOffsetY = [i \in Ids |-> 0]
  /\ dragPanelHeight = [i \in Ids |-> 0]
  /\ backdropOpacity = [i \in Ids |-> Removed]
  /\ panelStyle = [i \in Ids |-> NoPanelStyle]
  /\ adjustableHeight = [i \in Ids |-> FALSE]
  /\ mobileHeightState = [i \in Ids |-> NoMobileHeightState]
  /\ adjustableTrackingReady = [i \in Ids |-> FALSE]
  /\ adjustableTracking = [i \in Ids |-> FALSE]
  /\ adjustableTrackingStartSchedule = [i \in Ids |-> NoSchedule]
  /\ dragCloseStateClearSchedule = [i \in Ids |-> NoSchedule]
  /\ shouldDeferCloseStateClear = [i \in Ids |-> FALSE]
  /\ tracking = [i \in Ids |-> NoTracking]
  /\ viewport \in viewportSet
  /\ content = [i \in Ids |-> DefaultContent]
  /\ mobile \in mobileSet
  /\ hostOptions \in optionSet
  /\ sectionsElement = [i \in Ids |-> << >>]
  /\ thrown = NoError
  /\ documentBodyScroll = HostDocument
  /\ optionSheet = NoOptionSheet
  /\ observed = recorded
  /\ calls = [i \in Ids |-> << >>]
  /\ cause = [i \in Ids |-> "host"]
  /\ unreported = [i \in Ids |-> 0]
  /\ reported = [i \in Ids |-> NoReport]
  /\ effectRuns = [i \in Ids |-> [race \in Races |-> 0]]
  /\ lastOpened = NoId
  /\ opens = 0
  /\ lastOp = Op("init", NoId, "")

\* The same on a viewport without keyboard: 1000 px high, unscrolled.
InitWith(optionSet, mobileSet, recorded) ==
  InitEnv(optionSet, mobileSet, recorded, {DefaultViewport})

\* ----------------------------------------------------------------- actions

\* The host constructs a sheet, open or closed; limit bounds how many.
Create(limit) ==
  \E open \in BOOLEAN :
    /\ nextSheetStackParticipantId <= limit
    /\ open => opens < MaxOpens
    /\ Commit(createSheet(World, open, hostOptions),
              Op("create", nextSheetStackParticipantId, ""))

\* instance.open()
Open ==
  \E i \in Created :
    /\ isOpen[i] \/ opens < MaxOpens
    /\ Commit(setOpen(World, i, TRUE, "api"), Op("open", i, "api"))

\* instance.close(reason)
Close(reasons) ==
  \E i \in Created, reason \in reasons :
    Commit(setOpen(World, i, FALSE, reason), Op("close", i, reason))

\* The host assigns options.isOpen.val itself.
HostSet ==
  \E i \in Created, v \in BOOLEAN :
    /\ v # isOpen[i]
    /\ v => opens < MaxOpens
    /\ Commit(SetVal(World, i, v, "host"),
              Op("set", i, IF v THEN "true" ELSE "false"))

\* instance.destroy()
Destroy ==
  \E i \in Created :
    Commit(destroy(World, i), Op("destroy", i, ""))

BackdropClick ==
  \E i \in Live :
    Commit(handleBackdropClick(World, i), Op("backdrop-click", i, ""))

CloseButtonClick ==
  \E i \in Live :
    Commit(handleCloseButtonClick(World, i), Op("close-click", i, ""))

Keydown ==
  \E key \in Keys :
    /\ Created # {}
    /\ Commit(DispatchKeydown(World, key, Live), Op("keydown", NoId, key))

\* event.touches counts every finger on the screen: while another sheet
\* tracks a finger (its touchend has not come), a new touch is not alone.
TouchStart ==
  \E i \in Live, touches \in TouchCounts, target \in TouchTargets,
     height \in PanelHeights :
    /\ touches = 1 => \A j \in Ids \ {i} : ~isTouchTracking[j]
    /\ Commit(handleTouchStart(World, i, touches, target, height),
           Op("touchstart", i, ""))

TouchMove ==
  \E i \in Live, present \in BOOLEAN, deltaY \in Deltas,
     height \in PanelHeights :
    Commit(handleTouchMove(World, i, present, deltaY, height),
           Op("touchmove", i, ""))

\* touchend or touchcancel; the recorded operation tells a release of a drag
\* at or past the close threshold from any other end of touch.
TouchEnd ==
  \E i \in Live :
    Commit(handleTouchEnd(World, i),
           Op("touchend", i,
              IF /\ isTouchTracking[i] /\ isDragging[i]
                 /\ dragOffsetY[i] >= DRAG_CLOSE_THRESHOLD_PX
              THEN "release" ELSE ""))

\* A transitionend event reaches the panel of instance i.
TransitionEndOf(i) ==
  \E event \in TransitionEvents :
    Commit(handleTransitionEnd(World, i, event),
           Op("transitionend", i, event.propertyName))

TransitionEnd == \E i \in Created : TransitionEndOf(i)

RetainTimeout ==
  \E i \in Created :
    /\ stackSnapshotRetainSchedule[i].timeout
    /\ Commit(handleRetainTimeout(World, i), Op("timeout", i, ""))

\* The 550 ms timer of the drag-close schedule of instance i fires.
DragCloseTimeoutOf(i) ==
  /\ dragCloseStateClearSchedule[i].timeout
  /\ Commit(handleDragCloseTimeout(World, i), Op("timeout", i, "drag-close"))

DragCloseTimeout == \E i \in Created : DragCloseTimeoutOf(i)

\* The 550 ms timer of the adjustable-tracking schedule of instance i fires.
AdjustableTimeoutOf(i) ==
  /\ adjustableTrackingStartSchedule[i].timeout
  /\ Commit(handleAdjustableTimeout(World, i), Op("timeout", i, "adjustable"))

AdjustableTimeout == \E i \in Created : AdjustableTimeoutOf(i)

AnimationFrame ==
  \E i \in Created :
    /\ \/ tracking[i].scheduledMobileHeightUpdateRaf
       \/ tracking[i].scheduledClosedPremeasureRaf
    /\ Commit(handleAnimationFrame(World, i), Op("frame", i, ""))

\* The visual viewport changes (keyboard, scroll, rotation) and fires its
\* event.
ViewportChange ==
  \E v \in Viewports :
    /\ v # viewport
    /\ Commit(DispatchViewportChange([World EXCEPT !.viewport = v], Created),
              Op("viewport", NoId, ""))

ContentChange ==
  \E i \in Created, height \in NaturalHeights :
    /\ height # content[i]
    /\ Commit(contentChanged(World, i, height), Op("content", i, ""))

\* The drag progress of the top-most sheet, in thousandths.
DragProgresses == {0, 250, 500, Unit}

\* Instance i is open in a stack of openCount open sheets, at `index` of the
\* sorted array, and the coordinator's sync hands it its snapshot.
SnapshotGiven ==
  \E i \in Live, openCount \in 1..MaxStack, index \in 0..(MaxStack - 1),
     stackDragProgress \in DragProgresses :
    /\ index < openCount
    /\ Commit(applyStackSnapshot(World, i,
                [kind |-> "snapshot",
                 snapshot |-> StackSnapshot(openCount, index,
                                            stackDragProgress)]),
              Op("snapshot", i, ""))

\* openOptionSheet(): the sheet is constructed closed and an animation frame
\* is requested that opens it.
openOptionSheet(w) ==
  LET id == w.nextId
      w1 == createSheet(w, FALSE, w.hostOptions)
  IN  [w1 EXCEPT !.optionSheet.called = TRUE,
                 !.optionSheet.sheet = id,
                 !.optionSheet.frame = TRUE]

\* The requested animation frame: if (sheet) isOpen.val = true.
optionSheetFrame(w) ==
  LET w1 == [w EXCEPT !.optionSheet.frame = FALSE]
  IN  IF w1.optionSheet.sheet # NoId
      THEN SetVal(w1, w1.optionSheet.sheet, TRUE, "host")
      ELSE w1

\* submit(): settle(selected.val); sheet?.close("api").
submit(w) ==
  LET w1 == settle(w, w.optionSheet.selected)
  IN  IF w1.optionSheet.sheet # NoId
      THEN setOpen(w1, w1.optionSheet.sheet, FALSE, "api")
      ELSE w1

\* A transitionend event reaches the panel: the listeners of createSheet,
\* added first, then every once-listener of destroyAfterCloseAnimation that
\* is still armed, in the order they were added.
RECURSIVE optionSheetTransitionListeners(_, _, _)
optionSheetTransitionListeners(w, i, k) ==
  IF k > Len(w.optionSheet.destroySchedules) THEN w
  ELSE LET schedule == w.optionSheet.destroySchedules[k]
       IN  IF schedule.listener /\ schedule.closingSheet = i
           THEN optionSheetTransitionListeners(
                  settleDestroy(
                    [w EXCEPT
                       !.optionSheet.destroySchedules[k].listener = FALSE],
                    k), i, k + 1)
           ELSE optionSheetTransitionListeners(w, i, k + 1)

optionSheetTransitionEnd(w, i, event) ==
  optionSheetTransitionListeners(handleTransitionEnd(w, i, event), i, 1)

OpenOptionSheet ==
  /\ ~optionSheet.called
  /\ Commit(openOptionSheet(World),
            Op("openOptionSheet", nextSheetStackParticipantId, ""))

OptionSheetFrame ==
  /\ optionSheet.frame
  /\ Commit(optionSheetFrame(World), Op("frame", optionSheet.sheet, ""))

\* A click on one of the option buttons of the mounted sheet.
OptionClick ==
  \E option \in OPTIONS :
    /\ optionSheet.called /\ optionSheet.sheet \in Live
    /\ option # optionSheet.selected
    /\ Commit([World EXCEPT !.optionSheet.selected = option],
              Op("option-click", optionSheet.sheet, option))

\* A click on the Submit button of the mounted sheet.
Submit ==
  /\ optionSheet.called /\ optionSheet.sheet \in Live
  /\ Commit(submit(World), Op("submit", optionSheet.sheet, ""))

OptionSheetTransitionEnd ==
  \E i \in Live, event \in TransitionEvents :
    Commit(optionSheetTransitionEnd(World, i, event),
           Op("transitionend", i, event.propertyName))

\* The 550 ms timer of the k-th destroyAfterCloseAnimation call fires.
OptionSheetTimeout ==
  \E k \in DOMAIN optionSheet.destroySchedules :
    /\ optionSheet.destroySchedules[k].timeout
    /\ Commit(settleDestroy(
                [World EXCEPT
                   !.optionSheet.destroySchedules[k].timeout = FALSE], k),
              Op("timeout", optionSheet.destroySchedules[k].closingSheet,
                 "destroy"))

\* A step to w that keeps the run within MaxOpens.
CommitWithin(w, op) == w.opens <= MaxOpens /\ Commit(w, op)

\* The batch VanJS scheduled on the first write runs; react is what the host
\* does inside each instance's onOpenChange.
UpdateDoms(reactions) ==
  \E react \in [Ids -> reactions] :
    /\ changedStates # << >>
    /\ CommitWithin(updateDoms(World, react), Op("batch", NoId, ""))

\* ---------------------------------------------------------- specifications

\* Stacking: sheets with the default options are constructed, opened and
\* closed by the host and by Escape and backdrop events, and destroyed; the
\* host does nothing inside onOpenChange.
NextStack ==
  \/ Create(NumSheets)
  \/ HostSet
  \/ Destroy
  \/ BackdropClick
  \/ Keydown
  \/ TransitionEnd
  \/ RetainTimeout
  \/ UpdateDoms({NoReaction})

SpecStack ==
  InitWith({DefaultOptions}, {FALSE}, {"order"}) /\ [][NextStack]_vars

\* Notification: open(), close(reason), host writes, the close button and
\* destroy on sheets with the default options; the host may answer an
\* onOpenChange call with a request or a write on the same instance.
NextNotify ==
  \/ Create(NumSheets)
  \/ Open
  \/ Close({"api", "backdrop"})
  \/ HostSet
  \/ CloseButtonClick
  \/ UpdateDoms(Reactions)

SpecNotify ==
  InitWith({DefaultOptions}, {FALSE}, {"calls", "transitions"}) /\ [][NextNotify]_vars

\* Dismissal: a sheet of every option combination on a mobile viewport and
\* every dismissal path (close button, backdrop, Escape, drag release,
\* close(reason)); the operation of each step is recorded.
NextDismiss ==
  /\ \/ Create(DismissSheets)
     \/ Open
     \/ Close(Reasons)
     \/ BackdropClick
     \/ CloseButtonClick
     \/ Keydown
     \/ TouchStart
     \/ TouchMove
     \/ TouchEnd
     \/ UpdateDoms({NoReaction})
  /\ opens' <= DismissOpens

SpecDismiss == InitWith(Options, {TRUE}, {"ops"}) /\ [][NextDismiss]_vars

\* Call history: sheets with the default options constructed open or
\* closed; open(), close(), host writes, the close button, backdrop clicks
\* and destroy in any order, the host answering an
\* onOpenChange call with a request or a write on the same instance; the
\* latest call of every instance is remembered.
NextHistory ==
  /\ \/ Create(NumSheets)
     \/ Open
     \/ Close({"api"})
     \/ HostSet
     \/ CloseButtonClick
     \/ BackdropClick
     \/ Destroy
     \/ UpdateDoms(Reactions)
  /\ opens' <= HistoryOpens

SpecHistory ==
  InitWith({DefaultOptions}, {FALSE}, {"calls", "history"})
    /\ [][NextHistory]_vars

\* Gestures on a stack: sheets with the default options on a mobile
\* viewport are constructed, opened by the host, dragged, clicked on the
\* backdrop and destroyed.
NextGesture ==
  /\ \/ Create(NumSheets)
     \/ Open
     \/ Destroy
     \/ BackdropClick
     \/ TouchStart
     \/ TouchMove
     \/ TouchEnd
     \/ UpdateDoms({NoReaction})
  /\ opens' <= GestureOpens

SpecGesture == InitWith({DefaultOptions}, {TRUE}, {}) /\ [][NextGesture]_vars

\* Height: one sheet, adjustable or not, on a narrow or a wide surface;
\* the keyboard, the page scroll and the content change while the host opens
\* and closes the sheet, and transitions end and timers fire.
NextHeight ==
  /\ \/ Create(HeightSheets)
     \/ Open
     \/ Close({"api"})
     \/ ViewportChange
     \/ ContentChange
     \/ AnimationFrame
     \/ TransitionEnd
     \/ RetainTimeout
     \/ DragCloseTimeout
     \/ AdjustableTimeout
     \/ UpdateDoms({NoReaction})
  /\ opens' <= HeightOpens

SpecHeight ==
  InitEnv(HeightOptions, BOOLEAN, {}, Viewports) /\ [][NextHeight]_vars

\* Snapshots: a sheet that the host opens and closes is one of up to
\* MaxStack open sheets; the others are present only through the snapshots
\* the coordinator hands to this one.
NextSnapshot ==
  \/ Create(SnapshotSheets)
  \/ HostSet
  \/ SnapshotGiven
  \/ UpdateDoms({NoReaction})

SpecSnapshot ==
  InitWith({DefaultOptions}, {FALSE}, {}) /\ [][NextSnapshot]_vars

\* Construction: the host constructs sheets from one configuration of
\* content and sections, valid or not, and destroys them.
NextConstruct ==
  \/ Create(NumSheets)
  \/ Destroy

SpecConstruct ==
  InitWith(ConstructOptions, {FALSE}, {"ops"}) /\ [][NextConstruct]_vars

\* ------------------------------------------------------------------ claims

\* One run of the VanJS batch: the queue of changed states is emptied.
BatchStep == changedStates # << >> /\ changedStates' = << >>

\* Live instances whose flag differs from the value last reconciled.
Edges == { i \in Live : isOpen[i] # previousOpen[i] }

OpenLive == { i \in Live : isOpen[i] }

\* C1: one Escape key event, dispatched when every earlier flag change has
\* been reconciled, changes the open flag of at most one sheet, and a sheet
\* whose flag it changes was top-most when the event was dispatched; every
\* other open sheet stays open.
C1_EscapeClosesOnlyTop ==
  [][(Keydown /\ changedStates = << >>) =>
       /\ Cardinality({ i \in Ids : isOpen'[i] # isOpen[i] }) <= 1
       /\ \A i \in Ids :
            isOpen'[i] # isOpen[i] => isTopOpenSheetStackParticipant(World, i)
    ]_vars

\* C2: once destroy() has returned, no later step reconciles the destroyed
\* instance: its last reconciled flag value (onOpenChange is called exactly
\* when it changes), its open-order, its root state and its stack markers
\* stay as destroy() left them.
C2_DestroyedStaysSilent ==
  [][\A i \in Ids :
       status[i] = "destroyed" =>
         /\ previousOpen'[i] = previousOpen[i]
         /\ openOrder'[i] = openOrder[i]
         /\ rootState'[i] = rootState[i]
         /\ stackDom'[i] = stackDom[i]
    ]_vars

\* The onOpenChange calls the latest step made, of all instances.
CallsMade == UNION { { calls[i][k] : k \in 1..Len(calls[i]) } : i \in Ids }

\* C3: whenever no batch is pending, every instance has received as many
\* onOpenChange calls as its flag has made transitions; no call is made
\* without a transition, and every call is made after the instance's root
\* and the stack have been resynchronized.
C3_OneCallPerTransition ==
  /\ \A i \in Ids : unreported[i] >= 0
  /\ \A e \in CallsMade : e.synced
  /\ changedStates = << >> => \A i \in Ids : unreported[i] = 0

\* C4: an onOpenChange(false, r) call for a flag that a close request closed
\* (a dismissal path or close(reason), made from anywhere) carries the
\* reason of that request.
C4_CloseCallCarriesRequestReason ==
  \A e \in CallsMade : (~e.open /\ e.cause \in Reasons) => e.reason = e.cause

\* C5: an onOpenChange call for a transition made by a direct host write of
\* the flag carries the reason api.
C5_HostWriteReportsApi ==
  \A e \in CallsMade : e.cause = "host" => e.reason = "api"

\* The step leaves instance i as it was: flag, pending reason, last
\* reconciled value and open-order unchanged, and no batch scheduled (an
\* onOpenChange call is only made by a batch after a change of a flag).
Untouched(i) ==
  /\ isOpen'[i] = isOpen[i]
  /\ pendingReason'[i] = pendingReason[i]
  /\ previousOpen'[i] = previousOpen[i]
  /\ openOrder'[i] = openOrder[i]
  /\ nextSheetStackOpenOrder' = nextSheetStackOpenOrder
  /\ changedStates' = changedStates
  /\ oldVal'[i] = oldVal[i]

\* The step is a close request on i with a reason other than api: the close
\* button, a backdrop click, an Escape key event, a drag released at or past
\* the threshold, or close(reason).
NonApiCloseRequest(i) ==
  \/ lastOp'.op \in {"close-click", "backdrop-click"} /\ lastOp'.id = i
  \/ lastOp'.op = "keydown" /\ lastOp'.arg = "Escape"
  \/ lastOp'.op = "touchend" /\ lastOp'.id = i /\ lastOp'.arg = "release"
  \/ lastOp'.op = "close" /\ lastOp'.id = i /\ lastOp'.arg # "api"

\* C6: on an instance constructed with dismissible false every close
\* request whose reason is not api leaves the flag unchanged and schedules
\* no reconciliation (so no onOpenChange call); close("api") on it, when
\* it is open, closes it with pending reason api.
C6_NonDismissibleRefuses ==
  [][\A i \in Live :
       ~dismissible[i] =>
         /\ NonApiCloseRequest(i) => Untouched(i)
         /\ (lastOp' = Op("close", i, "api") /\ isOpen[i]) =>
              /\ ~isOpen'[i]
              /\ pendingReason'[i] = "api"
              /\ \E k \in 1..Len(changedStates') : changedStates'[k] = i
    ]_vars

\* C6 witness: a drag released past the threshold on an open, reconciled,
\* non-dismissible sheet whose other switches are on.
C6_Witness ==
  /\ lastOp = Op("touchend", 1, "release")
  /\ status[1] = "live" /\ ~dismissible[1]
  /\ closeOnBackdrop[1] /\ closeOnEscape[1]
  /\ isOpen[1] /\ previousOpen[1] /\ changedStates = << >>

\* C7: an Escape key event leaves an instance with closeOnEscape false, and
\* a backdrop click leaves an instance with closeOnBackdrop false, as it
\* was, in every state: the flag is unchanged and no reconciliation is
\* scheduled (so no onOpenChange call).
C7_SwitchesRespected ==
  [][\A i \in Live :
       /\ (lastOp'.op = "keydown" /\ lastOp'.arg = "Escape"
             /\ ~closeOnEscape[i]) => Untouched(i)
       /\ (lastOp' = Op("backdrop-click", i, "") /\ ~closeOnBackdrop[i]) =>
            Untouched(i)
    ]_vars

\* C7 witness: Escape was pressed on an open, reconciled, top-most,
\* dismissible sheet with closeOnEscape false, and it is still open.
C7_Witness ==
  /\ lastOp = Op("keydown", NoId, "Escape")
  /\ status[1] = "live" /\ dismissible[1] /\ ~closeOnEscape[1]
  /\ isOpen[1] /\ previousOpen[1] /\ changedStates = << >>
  /\ isTopOpenSheetStackParticipant(World, 1)

\* C8: open() on an instance whose flag is open and close(reason) on an
\* instance whose flag is closed change nothing: flag, pending reason and
\* open-order are unchanged and no reconciliation is scheduled (so no
\* onOpenChange call).
C8_NoOpRequests ==
  [][\A i \in Created :
       /\ (lastOp' = Op("open", i, "api") /\ isOpen[i]) => Untouched(i)
       /\ (lastOp'.op = "close" /\ lastOp'.id = i /\ ~isOpen[i]) =>
            Untouched(i)
    ]_vars

\* C8 witness: close("escape") on a sheet that close("backdrop") had
\* closed before the batch ran; the pending reason is still backdrop.
C8_Witness ==
  /\ lastOp = Op("close", 1, "escape")
  /\ ~isOpen[1] /\ previousOpen[1]
  /\ pendingReason[1] = "backdrop"

\* The live open instance other than i with the greatest open-order: the
\* top-most one before i is placed.
TopBelow(i) ==
  { j \in OpenLive \ {i} :
      \A k \in OpenLive \ {i} : SortIndex(World, k) <= SortIndex(World, j) }

\* C9: a batch that reconciles openings only, the most recent opening among
\* them (of an instance whose flag was also the last to be written since
\* the previous batch), leaves the instance that was opened last top-most
\* and every other open instance not top-most.
C9_LastOpenedIsTop ==
  [][(/\ BatchStep
      /\ lastOpened \in Edges
      /\ changedStates[Len(changedStates)] = lastOpened
      /\ \A i \in Edges : isOpen[i]) =>
       /\ ~stackDom'[lastOpened].cleared
       /\ stackDom'[lastOpened].stackTop
       /\ \A j \in OpenLive \ {lastOpened} :
            ~stackDom'[j].cleared /\ ~stackDom'[j].stackTop
    ]_vars

\* C9, one reconciliation at a time (holds): a batch that reconciles the
\* opening of one live instance i (first
\* opening or re-opening, nothing else pending) leaves i top-most with the
\* highest layer, every other open instance not top-most, and the instance
\* that was top-most one level below i; a batch that reconciles the closing
\* of the top-most instance leaves the instance that was one level below it
\* top-most again.
C9_OpenPromotesCloseRestores ==
  [][BatchStep =>
       \A i \in Live :
         /\ (Edges = {i} /\ isOpen[i]) =>
              /\ ~stackDom'[i].cleared
              /\ stackDom'[i].stackTop
              /\ stackDom'[i].stackDepth = 0
              /\ stackDom'[i].layer = Cardinality(OpenLive) - 1
              /\ \A j \in OpenLive \ {i} :
                   /\ ~stackDom'[j].cleared
                   /\ ~stackDom'[j].stackTop
                   /\ stackDom'[j].layer < stackDom'[i].layer
              /\ \A j \in TopBelow(i) : stackDom'[j].stackDepth = 1
         /\ (Edges = {i} /\ ~isOpen[i] /\ ~stackDom[i].cleared
               /\ stackDom[i].stackTop) =>
              \A j \in OpenLive :
                (~stackDom[j].cleared /\ stackDom[j].stackDepth = 1) =>
                  /\ ~stackDom'[j].cleared
                  /\ stackDom'[j].stackTop
                  /\ stackDom'[j].stackDepth = 0
    ]_vars

\* C9 witness: sheet 1 was opened, then sheet 2, then sheet 1 was closed and
\* re-opened: it holds the third open-order and is top-most above sheet 2.
C9_Witness ==
  /\ changedStates = << >>
  /\ status = [i \in Ids |-> "live"]
  /\ openOrder[2] = 2 /\ openOrder[1] = 3
  /\ ~stackDom[1].cleared /\ stackDom[1].stackTop /\ stackDom[1].layer = 1
  /\ ~stackDom[2].cleared /\ stackDom[2].stackDepth = 1

\* Properties of one set of snapshots over the participants of w.
SnapshotSetOk(w) ==
  LET given == SnapshotsOf(w)
      open == { i \in w.participants : w.isOpen[i] }
      N == Cardinality(open)
      depth(i) == given[i].snapshot.depthFromTop
      tops == { i \in open : given[i].snapshot.isTop }
  IN  /\ \A i \in Ids : (given[i].kind = "snapshot") = (i \in open)
      /\ N >= 1 =>
           /\ Cardinality(tops) = 1
           /\ \A t \in tops :
                /\ \A j \in open : w.openOrder[j] <= w.openOrder[t]
                /\ depth(t) = 0
           /\ { depth(i) : i \in open } = 0..(N - 1)
           /\ \A i, j \in open : i # j => depth(i) # depth(j)
           /\ \A i, j \in open :
                w.openOrder[i] < w.openOrder[j] => depth(i) > depth(j)
           /\ \A i \in open : given[i].snapshot.openCount = N
           /\ \A i \in Ids :
                isTopOpenSheetStackParticipant(w, i) = (i \in tops)
      /\ N = 0 => \A i \in Ids : ~isTopOpenSheetStackParticipant(w, i)

\* C10: in every reachable state (any sequence of opens, closes and
\* destructions) the snapshots a sync hands out have exactly one top-most
\* participant, the one with the greatest open-order; the depths are exactly
\* 0..N-1, pairwise distinct, decreasing with the open-order; is_top holds
\* for that participant only and for none when no participant is open.
C10_SnapshotSet == SnapshotSetOk(World)

\* C10 witness: two open participants, the first constructed opened last.
C10_Witness ==
  /\ Cardinality({ i \in sheetStackParticipants : isOpen[i] }) = 2
  /\ openOrder[1] > openOrder[2] /\ openOrder[2] > 0
  /\ SnapshotsOf(World)[1].snapshot.isTop
  /\ SnapshotsOf(World)[2].snapshot.depthFromTop = 1

\* The step is the release of a drag on i: a touchend or touchcancel while
\* i tracks a touch that has moved downward, its flag being open.
DragRelease(i) ==
  /\ lastOp'.op = "touchend" /\ lastOp'.id = i
  /\ isTouchTracking[i] /\ isDragging[i] /\ isOpen[i]

\* The step closes i with reason drag.
ClosesWithDrag(i) ==
  /\ ~isOpen'[i]
  /\ pendingReason'[i] = "drag"
  /\ \E k \in 1..Len(changedStates') : changedStates'[k] = i

\* After the release neither the instance nor the coordinator holds a drag.
DragCleared(i) ==
  /\ ~isDragging'[i] /\ ~isTouchTracking'[i]
  /\ activeStackDragParticipantId' = NoId
  /\ activeStackDragProgress' = 0

\* C11 as stated: the release of a drag on an open sheet closes it with
\* reason drag if and only if the offset at release is at least 150 px; a
\* release below 150 px leaves the flag true, schedules no reconciliation
\* (so no onOpenChange call) and sets the backdrop opacity to 1; either way
\* the coordinator's drag record and the dragging flag are cleared.
C11_ReleaseClosesAtThreshold ==
  [][\A i \in Live :
       DragRelease(i) =>
         /\ ClosesWithDrag(i) <=> dragOffsetY[i] >= DRAG_CLOSE_THRESHOLD_PX
         /\ dragOffsetY[i] < DRAG_CLOSE_THRESHOLD_PX =>
              Untouched(i) /\ backdropOpacity'[i] = Unit
         /\ DragCleared(i)
    ]_vars

\* C11 amended: the release of a drag on an open sheet closes it with reason
\* drag if and only if the offset at release is at least 150 px and the
\* sheet is dismissible; a release at or past 150 px on a non-dismissible
\* sheet and every release below 150 px leave the flag true and schedule no
\* reconciliation (so no onOpenChange call); a release below 150 px sets the
\* backdrop opacity to 1; in every case the coordinator's drag record and
\* the dragging flag are cleared.
C11_ReleaseClosesDismissibleAtThreshold ==
  [][\A i \in Live :
       DragRelease(i) =>
         /\ ClosesWithDrag(i) <=>
              (dragOffsetY[i] >= DRAG_CLOSE_THRESHOLD_PX /\ dismissible[i])
         /\ ~ClosesWithDrag(i) => Untouched(i)
         /\ dragOffsetY[i] < DRAG_CLOSE_THRESHOLD_PX =>
              backdropOpacity'[i] = Unit
         /\ DragCleared(i)
    ]_vars

\* C11 witness: a drag of exactly 150 px was released on an open,
\* reconciled, dismissible sheet; its flag is closed with reason drag and
\* the batch is scheduled.
C11_Witness ==
  /\ lastOp = Op("touchend", 1, "release")
  /\ status[1] = "live" /\ dismissible[1]
  /\ ~isOpen[1] /\ previousOpen[1] /\ pendingReason[1] = "drag"
  /\ changedStates = << 1 >>
  /\ ~isDragging[1] /\ activeStackDragParticipantId = NoId

\* C12: a backdrop click or a touchend (the release of a drag), dispatched
\* when every earlier flag change has been reconciled, changes the open
\* flag of a sheet only if that sheet is the top-most open instance at
\* that moment.
C12_GestureClosesOnlyTop ==
  [][((BackdropClick \/ TouchEnd) /\ changedStates = << >>) =>
       \A i \in Ids :
         isOpen'[i] # isOpen[i] => isTopOpenSheetStackParticipant(World, i)
    ]_vars

\* The snapshots a sync of w hands out and the stack variables on the roots
\* of the open participants carry no drag: visual depth is depth-from-top
\* and stack-dragging is false.
NoDragInSnapshots(w) ==
  \A j \in Ids :
    SnapshotsOf(w)[j].kind = "snapshot" =>
      /\ SnapshotsOf(w)[j].snapshot.visualDepth =
           SnapshotsOf(w)[j].snapshot.depthFromTop * Unit
      /\ ~SnapshotsOf(w)[j].snapshot.stackDragging
      /\ ~w.stackDom[j].cleared
      /\ w.stackDom[j].visualDepth = w.stackDom[j].stackDepth * Unit
      /\ ~w.stackDom[j].stackDragging

\* C13: destroy() of an instance that owns the coordinator's drag progress
\* leaves the coordinator with no owner and progress 0, and every remaining
\* open instance with a snapshot whose visual depth is its depth-from-top
\* and whose stack-dragging is false; after any step a destroyed instance
\* is not the owner, so an instance opened later inherits no progress.
C13_DestroyReleasesDrag ==
  [][/\ \A i \in Ids :
          status'[i] = "destroyed" => activeStackDragParticipantId' # i
     /\ \A i \in Live :
          (/\ status'[i] = "destroyed"
           /\ activeStackDragParticipantId = i
           /\ activeStackDragProgress > 0) =>
            /\ activeStackDragParticipantId' = NoId
            /\ activeStackDragProgress' = 0
            /\ NoDragInSnapshots(World')
    ]_vars

\* C13 witness: sheet 2, top-most above sheet 1, was destroyed in the middle
\* of a drag (its closure still says dragging); sheet 1 is top-most at
\* visual depth 0 and the coordinator has no drag owner.
C13_Witness ==
  /\ status[2] = "destroyed" /\ isDragging[2] /\ dragOffsetY[2] > 0
  /\ status[1] = "live" /\ isOpen[1]
  /\ ~stackDom[1].cleared /\ stackDom[1].stackTop
  /\ stackDom[1].visualDepth = 0 /\ ~stackDom[1].stackDragging
  /\ activeStackDragParticipantId = NoId /\ activeStackDragProgress = 0

\* C14: in every reachable state and for every constructed instance,
\* destroy() applied twice gives the state destroy() applied once gives:
\* registry, drag record, every instance's snapshot and the instance's own
\* state are the same (destroy has no failing path: Map.delete of a
\* missing key and the removal of a missing listener are no-ops).
C14_DestroyIdempotent ==
  \A i \in Created : destroy(destroy(World, i), i) = destroy(World, i)

\* C14 witness: sheet 1 has been destroyed while sheet 2 is open and owns
\* a drag in progress; another destroy() of sheet 1 changes nothing.
C14_Witness ==
  /\ status[1] = "destroyed" /\ status[2] = "live" /\ isOpen[2]
  /\ activeStackDragParticipantId = 2 /\ activeStackDragProgress > 0
  /\ ~stackDom[2].cleared /\ stackDom[2].stackDragging
  /\ destroy(World, 1) = World

\* The batch reconciles the closing of live instance i and nothing else:
\* its flag is the only one written since the previous batch.
ClosingBatch(i) ==
  /\ BatchStep
  /\ changedStates = << i >>
  /\ Edges = {i}
  /\ previousOpen[i] /\ ~isOpen[i]

\* C15: the batch that reconciles the closing of a sheet leaves the stack
\* layer, offset and scale on the closing sheet's root as they were while
\* it was open, with the retain schedule (transitionend handler and 550 ms
\* timer) armed, and re-layers the sheets that remain open at once; while
\* the sheet stays closed its stack variables are unchanged by every step
\* except a transitionend, the timer and destroy(), and a transitionend or
\* the timer clears them.
C15_ClosingSheetKeepsLayer ==
  [][\A i \in Live :
       /\ ClosingBatch(i) =>
            /\ stackDom'[i] = stackDom[i]
            /\ stackSnapshotRetainSchedule'[i] =
                 [timeout |-> TRUE, handler |-> TRUE]
            /\ \A j \in OpenLive :
                 /\ ~stackDom'[j].cleared
                 /\ stackDom'[j].stackSize = Cardinality(OpenLive)
                 /\ stackDom'[j].layer = SortIndex(World, j)
       /\ (/\ ~isOpen[i] /\ ~isOpen'[i] /\ status'[i] = "live"
           /\ changedStates = << >>
           /\ retainStackSnapshotWhileClosed[i]) =>
            IF TransitionEnd \/ RetainTimeout
            THEN stackSnapshotRetainSchedule'[i] = NoSchedule =>
                   stackDom'[i] = NoSnap
            ELSE stackDom'[i] = stackDom[i]
    ]_vars

\* The close of instance i is one whose geometry is kept for the closing
\* transition: adjustable height on a narrow surface.
DeferredClose(i) == adjustableHeight[i] /\ mobile

\* C16: the batch that reconciles a close clears the mobile geometry state
\* (height, keyboard height, root offset, bottom inset, keyboard marker, base
\* viewport height, natural-height cache) at once, unless adjustable height
\* is active on a narrow surface: then the batch keeps it and arms the
\* transitionend handler and the 550 ms timer, every step other than these
\* two keeps it while the flag stays closed, a transitionend or the timer
\* clears it when the flag is still closed, and neither clears anything when
\* the flag was set again in between.
C16_CloseClearsGeometry ==
  [][\A i \in Live :
       /\ ClosingBatch(i) =>
            IF DeferredClose(i)
            THEN /\ mobileHeightState'[i] = mobileHeightState[i]
                 /\ shouldDeferCloseStateClear'[i]
                 /\ dragCloseStateClearSchedule'[i] = Armed
            ELSE /\ mobileHeightState'[i] = NoMobileHeightState
                 /\ dragCloseStateClearSchedule'[i] = NoSchedule
       /\ (shouldDeferCloseStateClear[i] /\ ~isOpen[i] /\ ~isOpen'[i]) =>
            IF TransitionEndOf(i) \/ DragCloseTimeoutOf(i)
            THEN /\ mobileHeightState'[i] = NoMobileHeightState
                 /\ ~shouldDeferCloseStateClear'[i]
                 /\ dragCloseStateClearSchedule'[i] = NoSchedule
            ELSE mobileHeightState'[i] = mobileHeightState[i]
       /\ (/\ shouldDeferCloseStateClear[i] /\ isOpen[i]
           /\ (TransitionEndOf(i) \/ DragCloseTimeoutOf(i))) =>
            mobileHeightState'[i] = mobileHeightState[i]
    ]_vars

\* An adjustable sheet on a narrow surface is closed and reconciled, and its
\* geometry of the open time (here under a keyboard) is still in place, the
\* handler and the timer waiting.
C16_Witness ==
  /\ status[1] = "live" /\ ~isOpen[1] /\ rootState[1] = "closed"
  /\ changedStates = << >>
  /\ shouldDeferCloseStateClear[1]
  /\ dragCloseStateClearSchedule[1] = Armed
  /\ mobileHeightState[1].mobileHeight > 0
  /\ mobileHeightState[1].keyboardHeight > 0
  /\ mobileHeightState[1].baseMobileViewportHeight > 0

\* The batch reconciles the opening of live instance i and nothing else.
OpeningBatch(i) ==
  /\ BatchStep
  /\ changedStates = << i >>
  /\ Edges = {i}
  /\ ~previousOpen[i] /\ isOpen[i]

\* The height cap that belongs to geometry state m.
CapOf(m) ==
  Max(0, Round(m.baseMobileViewportHeight * MOBILE_SHEET_HEIGHT_RATIO, 100)
         - m.keyboardHeight)

\* The end of the transform transition of the panel itself.
PanelTransformEnd == [onPanel |-> TRUE, propertyName |-> "transform"]

\* C17: with adjustable height on a narrow surface, the batch that
\* reconciles an open edge (and a construction with the flag set) leaves the
\* instance not ready, without the adjustable-tracking marker, at the height
\* of the cap, the transitionend handler and the 550 ms timer armed; while
\* open and not ready its height is the cap; it becomes ready only by the
\* end of the panel's own transform transition or by the timer, and either
\* of them makes it ready when the flag is still set; no other transitionend
\* does; the batch that reconciles a close edge resets it to not ready and
\* disarms both; ready implies the sheet was reconciled as open.
C17_ReadyAfterOpenTransition ==
  [][\A i \in Created : (adjustableHeight'[i] /\ mobile) =>
       /\ (OpeningBatch(i) \/ (status[i] = "none" /\ isOpen'[i])) =>
            /\ ~adjustableTrackingReady'[i]
            /\ ~adjustableTracking'[i]
            /\ mobileHeightState'[i].mobileHeight = CapOf(mobileHeightState'[i])
            /\ adjustableTrackingStartSchedule'[i] = Armed
       /\ (rootState'[i] = "open" /\ ~adjustableTrackingReady'[i]) =>
            /\ ~adjustableTracking'[i]
            /\ mobileHeightState'[i].mobileHeight = CapOf(mobileHeightState'[i])
       /\ (~adjustableTrackingReady[i] /\ adjustableTrackingReady'[i]) =>
            \/ AdjustableTimeoutOf(i)
            \/ Commit(handleTransitionEnd(World, i, PanelTransformEnd),
                      Op("transitionend", i, "transform"))
       /\ (/\ adjustableTrackingStartSchedule[i] = Armed /\ isOpen[i]
           /\ \/ AdjustableTimeoutOf(i)
              \/ Commit(handleTransitionEnd(World, i, PanelTransformEnd),
                        Op("transitionend", i, "transform"))) =>
            /\ adjustableTrackingReady'[i] /\ adjustableTracking'[i]
            /\ adjustableTrackingStartSchedule'[i] = NoSchedule
       /\ \A event \in TransitionEvents \ {PanelTransformEnd} :
            handleTransitionEnd(World, i, event).adjustableTrackingReady[i]
              = adjustableTrackingReady[i]
       /\ ClosingBatch(i) =>
            /\ ~adjustableTrackingReady'[i]
            /\ ~adjustableTracking'[i]
            /\ adjustableTrackingStartSchedule'[i] = NoSchedule
       /\ adjustableTrackingReady'[i] =>
            previousOpen'[i] /\ rootState'[i] = "open"
    ]_vars

\* An adjustable sheet on a narrow surface was opened, its transition has
\* ended or the timer has fired, and it is ready and fits its content.
C17_Witness ==
  /\ status[1] = "live" /\ mobile /\ adjustableHeight[1]
  /\ isOpen[1] /\ adjustableTrackingReady[1] /\ adjustableTracking[1]
  /\ adjustableTrackingStartSchedule[1] = NoSchedule
  /\ mobileHeightState[1].mobileHeight = DefaultContent
  /\ mobileHeightState[1].mobileHeight < CapOf(mobileHeightState[1])

\* C18: the mobile height h on the root of a sheet reconciled as open
\* satisfies 0 <= h <= cap, cap = max(0, round(0.95 * base) - keyboard
\* height) of the same geometry state; h = min(cap, natural height) when
\* adjustable height is active and ready, the natural height being the
\* measured one (the content's own once no measurement is pending), and
\* h = cap otherwise.
C18_HeightWithinCap ==
  \A i \in Live :
    (rootState[i] = "open" /\ mobileHeightState[i].mobileHeight # Removed) =>
      LET m == mobileHeightState[i]
          cap == CapOf(m)
      IN  /\ 0 <= m.mobileHeight /\ m.mobileHeight <= cap
          /\ IF adjustableHeight[i] /\ adjustableTrackingReady[i]
             THEN /\ m.mobileHeight = Min(cap, m.cachedNaturalPanelHeight)
                  /\ (/\ ~m.naturalPanelHeightDirty
                      /\ ~tracking[i].scheduledMobileHeightUpdateRaf) =>
                       m.mobileHeight = Min(cap, content[i])
             ELSE m.mobileHeight = cap

\* A ready adjustable sheet whose content (1200 px) is taller than the cap
\* under a keyboard: the height is the cap, 650 px.
C18_Witness ==
  /\ status[1] = "live" /\ rootState[1] = "open" /\ isOpen[1]
  /\ adjustableHeight[1] /\ adjustableTrackingReady[1]
  /\ mobileHeightState[1].cachedNaturalPanelHeight = 1200
  /\ mobileHeightState[1].keyboardHeight = 300
  /\ mobileHeightState[1].mobileHeight = 650

\* The step wrote the geometry of instance i: one of the values on its root
\* or panel changed, and to a value (not to "removed").
GeometryApplied(i) ==
  /\ mobileHeightState'[i].keyboardHeight # Removed
  /\ \E f \in {"mobileHeight", "keyboardHeight", "rootOffsetY", "bottom",
               "keyboardOpen", "baseMobileViewportHeight"} :
       mobileHeightState'[i][f] # mobileHeightState[i][f]

\* max(0, round(base - (visible height + visible offset))) for the viewport
\* v, reported as 0 when at most 1 and when there is no visual viewport.
KeyboardOf(base, v) ==
  LET raw == Max(0, Round(base * HalfPx - (v.height + v.offsetTop), HalfPx))
  IN  IF ~v.visual \/ raw <= KEYBOARD_CLOSED_EPSILON_PX THEN 0 ELSE raw

\* The geometry state m agrees with the viewport v on the keyboard height,
\* the marker and the bottom inset; offset is what the root offset has to
\* be, in halves of a pixel, while a keyboard is detected.
GeometryOf(m, v, offset) ==
  /\ m.keyboardHeight = KeyboardOf(m.baseMobileViewportHeight, v)
  /\ m.keyboardOpen = (m.keyboardHeight > 0)
  /\ m.rootOffsetY * HalfPx = IF m.keyboardHeight > 0 THEN offset ELSE 0
  /\ m.bottom = m.keyboardHeight + m.rootOffsetY

\* The two worked examples: base 1000, 700 px visible, offset 0 and 120;
\* fits: the height follows the content (adjustable and ready).
GeometryExamples(m, v, fits) ==
  /\ (m.baseMobileViewportHeight = 1000 /\ v = Viewport(1000, 1400, 0)) =>
       /\ m.keyboardHeight = 300
       /\ m.mobileHeight =
            IF fits THEN Min(650, m.cachedNaturalPanelHeight) ELSE 650
  /\ (m.baseMobileViewportHeight = 1000 /\ v = Viewport(1000, 1400, 240)) =>
       /\ m.keyboardHeight = 180
       /\ m.mobileHeight =
            IF fits THEN Min(770, m.cachedNaturalPanelHeight) ELSE 770
       /\ m.rootOffsetY = 120
       /\ m.bottom = 300

\* C19 as stated: whenever the geometry is written, the keyboard height is
\* max(0, round(base - (visible height + visible offset))), 0 when at most
\* 1; the marker is present iff it is positive; the root offset is the
\* visible offset floored at 0 while a keyboard is detected and 0 otherwise;
\* the bottom inset is their sum; the two examples hold.
C19_RootOffsetIsVisibleOffset ==
  [][\A i \in Ids : GeometryApplied(i) =>
       /\ GeometryOf(mobileHeightState'[i], viewport',
                     Max(0, viewport'.offsetTop))
       /\ GeometryExamples(mobileHeightState'[i], viewport',
            adjustableHeight'[i] /\ adjustableTrackingReady'[i])
    ]_vars

\* C19, the root offset being the visible offset rounded to the nearest
\* pixel (halves up) and floored at 0.
C19_RootOffsetIsRoundedOffset ==
  [][\A i \in Ids : GeometryApplied(i) =>
       /\ GeometryOf(mobileHeightState'[i], viewport',
                     Max(0, Round(viewport'.offsetTop, HalfPx)) * HalfPx)
       /\ GeometryExamples(mobileHeightState'[i], viewport',
            adjustableHeight'[i] /\ adjustableTrackingReady'[i])
    ]_vars

\* The second example is in place on an open sheet: 700 px visible at
\* offset 120 under a base of 1000.
C19_Witness ==
  /\ status[1] = "live" /\ rootState[1] = "open" /\ isOpen[1]
  /\ viewport = Viewport(1000, 1400, 240)
  /\ mobileHeightState[1].baseMobileViewportHeight = 1000
  /\ mobileHeightState[1].keyboardHeight = 180
  /\ mobileHeightState[1].mobileHeight = 770
  /\ mobileHeightState[1].rootOffsetY = 120
  /\ mobileHeightState[1].bottom = 300
  /\ mobileHeightState[1].keyboardOpen

\* Exactly one of content and sections is provided and, for sections,
\* exactly one section is flagged scroll.
ValidConfiguration(options) ==
  /\ (options.content # {}) # (options.sections # {})
  /\ \A sections \in options.sections :
       Cardinality({ k \in DOMAIN sections : sections[k].scroll = "true" }) = 1

\* C20: a call of createSheet with a valid configuration (exactly one of
\* content and sections, and exactly one section flagged scroll) throws
\* nothing, attaches the root, registers the instance with the coordinator
\* and builds exactly one scrollable section; with any other configuration
\* it throws and leaves everything as it was: no root attached, no id or
\* open order claimed, nothing registered, no listener subscribed.
C20_ConstructionValidates ==
  [][lastOp'.op = "create" =>
       LET i == nextSheetStackParticipantId
       IN  IF ValidConfiguration(hostOptions)
           THEN /\ thrown' = NoError
                /\ status'[i] = "live"
                /\ i \in sheetStackParticipants'
                /\ Cardinality({ k \in DOMAIN sectionsElement'[i] :
                                   sectionsElement'[i][k] }) = 1
           ELSE /\ thrown' # NoError
                /\ status' = status
                /\ rootState' = rootState
                /\ sectionsElement' = sectionsElement
                /\ sheetStackParticipants' = sheetStackParticipants
                /\ nextSheetStackParticipantId' = nextSheetStackParticipantId
                /\ nextSheetStackOpenOrder' = nextSheetStackOpenOrder
                /\ stackDom' = stackDom
                /\ listeners' = listeners
    ]_vars

\* createSheet was called with two sections flagged scroll: it threw, and
\* nothing is attached or registered.
C20_Witness ==
  /\ lastOp.op = "create"
  /\ thrown = "scroll-count"
  /\ hostOptions.content = {}
  /\ \E sections \in hostOptions.sections :
       /\ Len(sections) = 2
       /\ \A k \in 1..2 : sections[k].scroll = "true"
  /\ \A i \in Ids : status[i] = "none"
  /\ sheetStackParticipants = {}

\* C21: the stack variables on the root of a sheet that was given a
\* snapshot of visual depth v are offset -12 * v px and scale
\* max(0.72, 1 - 0.04 * v), to 3 decimals, and its layer is its position in
\* the open order (stack size - depth - 1); without a drag the offset is
\* -12 px times its depth; the top sheet shows 0 px and scale 1.
C21_StackOffsetAndScale ==
  \A i \in Live :
    ~stackDom[i].cleared =>
      LET dom == stackDom[i]
      IN  /\ dom.stackOffsetY = -12 * dom.visualDepth
          /\ dom.stackScale =
               Max(720, Round(1000 * 1000 - 40 * dom.visualDepth, 1000))
          /\ dom.layer = dom.stackSize - dom.stackDepth - 1
          /\ ~dom.stackDragging =>
               dom.stackOffsetY = -12 * 1000 * dom.stackDepth
          /\ dom.stackTop =>
               dom.stackOffsetY = 0 /\ dom.stackScale = 1000

\* The sheet is the lowest of nine open sheets: offset -96 px, and the scale
\* stops at 0.72 (1 - 0.04 * 8 is 0.68).
C21_Witness ==
  /\ status[1] = "live" /\ isOpen[1] /\ ~stackDom[1].cleared
  /\ stackDom[1].stackSize = 9 /\ stackDom[1].stackDepth = 8
  /\ stackDom[1].layer = 0
  /\ stackDom[1].stackOffsetY = -96000
  /\ stackDom[1].stackScale = 720

\* Races: one sheet, adjustable or not, on a narrow or a wide surface, is
\* opened and closed by the host (also by writes of the flag that are undone
\* before the batch) and destroyed, while transitions end and the 550 ms
\* timers fire in any order; the effects of the races are counted.
NextRace ==
  /\ \/ Create(HeightSheets)
     \/ Open
     \/ Close({"api"})
     \/ HostSet
     \/ Destroy
     \/ AnimationFrame
     \/ TransitionEnd
     \/ RetainTimeout
     \/ DragCloseTimeout
     \/ AdjustableTimeout
     \/ UpdateDoms({NoReaction})
  /\ opens' <= HeightOpens

SpecRace ==
  InitEnv(HeightOptions, BOOLEAN, {"effects"}, {DefaultViewport})
    /\ [][NextRace]_vars

\* Dragging: one sheet, dismissible or not, on a narrow surface is opened and
\* closed by the host, dragged, released and reconciled, and its panel's
\* transitions end; the panel's inline transform, the dragging marker and
\* the once-listeners of animatePanelTo are followed.
DragOptions ==
  [dismissible : BOOLEAN, closeOnBackdrop : {TRUE}, closeOnEscape : {TRUE},
   adjustableHeight : {FALSE}, content : {{"content"}}, sections : {{}}]

NextDrag ==
  /\ \/ Create(DismissSheets)
     \/ Open
     \/ Close({"api"})
     \/ TouchStart
     \/ TouchMove
     \/ TouchEnd
     \/ TransitionEnd
     \/ RetainTimeout
     \/ UpdateDoms({NoReaction})
  /\ opens' <= DismissOpens

SpecDrag == InitWith(DragOptions, {TRUE}, {"panel"}) /\ [][NextDrag]_vars

\* Option sheet: openOptionSheet() is called once; the sheet is opened by the
\* animation frame, an option is chosen, Submit, the backdrop and the close
\* button are clicked, keys are pressed, transitions end and timers fire.
NextOption ==
  \/ OpenOptionSheet
  \/ OptionSheetFrame
  \/ OptionClick
  \/ Submit
  \/ BackdropClick
  \/ CloseButtonClick
  \/ Keydown
  \/ OptionSheetTransitionEnd
  \/ RetainTimeout
  \/ OptionSheetTimeout
  \/ UpdateDoms({OptionSheetReaction})

SpecOption == InitWith({DefaultOptions}, {FALSE}, {}) /\ [][NextOption]_vars

\* ---------------------------------------------------------------- C22
\* C22: the page scroll is locked exactly while at least one sheet is open:
\* with an open sheet the body and the document element carry the styles of
\* the first lock, with none they carry the styles the host page had before;
\* the lock count is never below 0 and an unlock at count 0 changes nothing.
\* createSheet never calls lockDocumentBodyScroll: the page stays unlocked.
AnySheetOpen == \E i \in Live : rootState[i] = "open"

C22_ScrollLockedWhileOpen ==
  /\ AnySheetOpen =>
       /\ documentBodyScroll.activeDocumentBodyScrollLocks > 0
       /\ documentBodyScroll.body = lockDocumentBodyScroll(HostDocument).body
       /\ documentBodyScroll.documentElement =
            lockDocumentBodyScroll(HostDocument).documentElement
  /\ ~AnySheetOpen =>
       /\ documentBodyScroll.body = HostDocument.body
       /\ documentBodyScroll.documentElement = HostDocument.documentElement
  /\ documentBodyScroll.activeDocumentBodyScrollLocks >= 0
  /\ documentBodyScroll.activeDocumentBodyScrollLocks = 0 =>
       unlockDocumentBodyScroll(documentBodyScroll) = documentBodyScroll


\* ---------------------------------------------------------------- C23
\* The option sheet has been dismissed by the backdrop, Escape or the close
\* button: its flag was set to false with that reason and the close has not
\* been reconciled yet.
OptionSheetDismissed ==
  /\ optionSheet.sheet # NoId
  /\ previousOpen[optionSheet.sheet] /\ ~isOpen[optionSheet.sheet]
  /\ pendingReason[optionSheet.sheet] \in {"backdrop", "escape", "close-button"}

\* resolve() is called in this step for the first time.
OptionSheetSettles ==
  optionSheet.resolved = << >> /\ optionSheet'.resolved # << >>

\* C23: the promise of openOptionSheet is settled once: with null when the
\* sheet was dismissed (backdrop, Escape, close button) before any Submit,
\* with the selected option when Submit comes before any dismissal; a settled
\* result never changes, and the sheet is destroyed once, after it closed.
C23_SettledOnceByFirstEvent ==
  [][ /\ Len(optionSheet'.resolved) <= 1
      /\ optionSheet.resolved # << >> =>
           optionSheet'.resolved = optionSheet.resolved
      /\ (OptionSheetDismissed /\ OptionSheetSettles) =>
           optionSheet'.resolved = << Null >>
      /\ (~OptionSheetDismissed /\ OptionSheetSettles) =>
           optionSheet'.resolved = << optionSheet.selected >>
      /\ optionSheet'.destroyCalls <= 1
      /\ optionSheet'.destroyCalls > optionSheet.destroyCalls =>
           /\ ~isOpen[optionSheet.sheet]
           /\ status'[optionSheet.sheet] = "destroyed" ]_vars


\* ---------------------------------------------------------------- C24
\* The schedule (timer and listener) of a race of instance i.
ScheduleOf(i, race) ==
  CASE race = "retain" -> stackSnapshotRetainSchedule[i]
    [] race = "adjustable" -> adjustableTrackingStartSchedule[i]
    [] race = "dragClose" -> dragCloseStateClearSchedule[i]

\* This step reconciles an edge of instance i (to open, or to closed).
EdgeReconciled(i, open) ==
  previousOpen[i] = ~open /\ previousOpen'[i] = open

\* C24: the effect of each of the three races (adjustable-tracking start,
\* retain clear, deferred geometry clear) runs at most once per scheduling,
\* in whatever order the transition end and the 550 ms timer come; it runs
\* only for a schedule that is still armed; a reconciled open edge leaves
\* neither timer nor listener of the retain and the geometry race, a
\* reconciled close edge leaves neither of the adjustable-tracking race.
C24_RaceEffectAtMostOnce ==
  [][ \A i \in Ids :
        /\ \A race \in Races :
             /\ effectRuns'[i][race] <= 1
             /\ effectRuns'[i][race] > effectRuns[i][race] =>
                  \/ ScheduleOf(i, race).timeout
                  \/ ScheduleOf(i, race).handler
        /\ EdgeReconciled(i, TRUE) =>
             /\ stackSnapshotRetainSchedule'[i] = NoSchedule
             /\ dragCloseStateClearSchedule'[i] = NoSchedule
        /\ EdgeReconciled(i, FALSE) =>
             adjustableTrackingStartSchedule'[i] = NoSchedule ]_vars

\* The effect of each of the three races of one sheet has run once since the
\* race was scheduled, and no timer or listener of them is left.
C24_Witness ==
  \E i \in Created :
    /\ \A race \in Races : effectRuns[i][race] = 1
    /\ \A race \in Races : ScheduleOf(i, race) = NoSchedule


\* ---------------------------------------------------------------- C25
\* C25: whenever a handler of a live instance asks "am I the top-most open
\* sheet", the answer agrees with the current flags and with open-orders
\* that reflect every open transition made so far: while the instance whose
\* flag was opened most recently is still open, it is the one, and the only
\* one, that is answered yes.
C25_TopQueryIsCurrent ==
  (/\ lastOpened # NoId
   /\ status[lastOpened] = "live"
   /\ isOpen[lastOpened]) =>
    \A i \in Live : isTopMostOpenSheet(World, i) <=> (i = lastOpened)


\* ---------------------------------------------------------------- C26
\* C26: an open-order changes only when an opening of the instance is
\* reconciled (or the instance is constructed open), and the new order is
\* greater than every order claimed before; no order is claimed on a close
\* or without an edge; when nothing is left to reconcile, as many orders have
\* been claimed as flags were opened, the instance whose flag was opened last
\* and is still open is top-most, and no two reconciled open instances hold
\* the same order.
C26_OpeningClaimsFreshOrder ==
  [][ /\ \A i \in Ids :
           openOrder'[i] # openOrder[i] =>
             /\ ~previousOpen[i] /\ previousOpen'[i]
             /\ openOrder'[i] >= nextSheetStackOpenOrder
             /\ openOrder'[i] < nextSheetStackOpenOrder'
             /\ \A j \in Ids \ {i} : openOrder'[j] # openOrder'[i]
      /\ nextSheetStackOpenOrder' # nextSheetStackOpenOrder =>
           \E i \in Ids : openOrder'[i] = nextSheetStackOpenOrder' - 1
      /\ changedStates' = << >> =>
           /\ nextSheetStackOpenOrder' - 1 = opens'
           /\ (/\ lastOpened' # NoId
               /\ status'[lastOpened'] = "live"
               /\ isOpen'[lastOpened']) =>
                isTopMostOpenSheet(World', lastOpened')
      /\ \A i, j \in Ids :
           (/\ i # j /\ status'[i] = "live" /\ status'[j] = "live"
            /\ isOpen'[i] /\ previousOpen'[i]
            /\ isOpen'[j] /\ previousOpen'[j]) =>
             openOrder'[i] # openOrder'[j] ]_vars


\* ---------------------------------------------------------------- C27
\* The drag record of w is (no owner, 0), or (owner, p) with 0 < p <= 1 and
\* the owner the top-most open participant.
DragRecordOk(w) ==
  \/ w.dragId = NoId /\ w.dragProgress = 0
  \/ /\ w.dragId \in w.participants
     /\ w.isOpen[w.dragId]
     /\ isTopOpenSheetStackParticipant(w, w.dragId)
     /\ 0 < w.dragProgress /\ w.dragProgress <= Unit

\* C27: right after a sync the drag record is (no owner, 0) or (owner, p)
\* with 0 < p <= 1 and the owner registered, open and top-most, whatever
\* record, flags and open-orders the sync found; and when no live instance
\* is in its dragging state the record is (no owner, 0).
C27_DragRecordAfterSync ==
  /\ \A owner \in Ids \cup {NoId}, progress \in DragProgresses :
       DragRecordOk(syncSheetStackState(
                      [World EXCEPT !.dragId = owner,
                                    !.dragProgress = progress]))
  /\ (\A i \in Live : ~isDragging[i]) =>
       activeStackDragParticipantId = NoId /\ activeStackDragProgress = 0

\* Sheet 2 owns half a drag above the open sheet 1 and its flag has just been
\* written false, so the record is owned by a closed participant: the next
\* sync resets it to (no owner, 0).
C27_Witness ==
  /\ activeStackDragParticipantId = 2 /\ activeStackDragProgress = 500
  /\ isOpen[1] /\ ~isOpen[2] /\ isDragging[2]
  /\ syncSheetStackState(World).dragId = NoId
  /\ syncSheetStackState(World).dragProgress = 0


\* ---------------------------------------------------------------- C28
\* The calls one sync makes to participant i.
CallsTo(w, i) ==
  SelectSeq(syncSheetStackStateCalls(w), LAMBDA call : call.id = i)

\* C28: one sync calls the snapshot callback of every registered participant
\* exactly once, with a snapshot when the participant is open and with null
\* when it is not, and calls no unregistered participant; the calls are the
\* snapshots the participants end up with.
C28_SyncCallsEachOnce ==
  \A i \in Ids :
    /\ i \in sheetStackParticipants =>
         /\ Len(CallsTo(World, i)) = 1
         /\ CallsTo(World, i)[1].given.kind =
              (IF isOpen[i] THEN "snapshot" ELSE "null")
         /\ CallsTo(World, i)[1].given = SnapshotsOf(World)[i]
    /\ i \notin sheetStackParticipants => CallsTo(World, i) = << >>

\* Two participants are registered, sheet 1 closed and sheet 2 open: the
\* sync calls sheet 2 first, with a snapshot, then sheet 1 with null.
C28_Witness ==
  /\ sheetStackParticipants = {1, 2}
  /\ ~isOpen[1] /\ isOpen[2]
  /\ Len(syncSheetStackStateCalls(World)) = 2
  /\ syncSheetStackStateCalls(World)[1].id = 2
  /\ syncSheetStackStateCalls(World)[1].given.kind = "snapshot"
  /\ syncSheetStackStateCalls(World)[2] =
       [id |-> 1, given |-> [kind |-> "null"]]


\* ---------------------------------------------------------------- C29
\* The snapshots a sync hands out when `owner` holds progress p.
SnapshotsWith(owner, p) ==
  SnapshotsOf([World EXCEPT !.dragId = owner, !.dragProgress = p])

\* C29: while the top-most sheet owns progress p an open sheet at depth d
\* is handed (and shows) visual depth max(0, d - p), never negative, never
\* more than d, 0 for the top sheet; a finger that has moved half of the
\* effective panel height reports progress 0.5, which puts the sheets below
\* the top one of three at 0.5 and 1.5; a progress whose owner is not the
\* top-most open sheet is applied as 0.
C29_VisualDepth ==
  /\ \A i \in Live :
       (isOpen[i] /\ ~stackDom[i].cleared /\ ~retainStackSnapshotWhileClosed[i])
         => /\ stackDom[i].visualDepth =
                 Max(0, stackDom[i].stackDepth * Unit - activeStackDragProgress)
            /\ stackDom[i].visualDepth >= 0
            /\ stackDom[i].visualDepth <= stackDom[i].stackDepth * Unit
            /\ stackDom[i].stackTop => stackDom[i].visualDepth = 0
  /\ \A owner \in Ids \cup {NoId}, p \in DragProgresses :
       \A i \in sheetStackParticipants :
         isOpen[i] =>
           LET snapshot == SnapshotsWith(owner, p)[i].snapshot
               d == snapshot.depthFromTop
           IN  /\ isTopOpenSheetStackParticipant(World, owner) =>
                    snapshot.visualDepth = Max(0, d * Unit - p)
               /\ ~isTopOpenSheetStackParticipant(World, owner) =>
                    snapshot.visualDepth = d * Unit
               /\ snapshot.visualDepth >= 0
               /\ snapshot.visualDepth <= d * Unit
               /\ snapshot.isTop => snapshot.visualDepth = 0
  /\ \A i \in Live, height \in PanelHeights, deltaY \in Deltas :
       (/\ isTouchTracking[i] /\ isTopMostOpenSheet(World, i)
        /\ deltaY > 0
        /\ 2 * deltaY = getStackDragProgressDistance(World, i, height)) =>
         LET w == handleTouchMove(World, i, TRUE, deltaY, height)
         IN  /\ w.dragId = i /\ w.dragProgress = Unit \div 2
             /\ StackSnapshot(3, 1, w.dragProgress).visualDepth = Unit \div 2
             /\ StackSnapshot(3, 0, w.dragProgress).visualDepth =
                  Unit + Unit \div 2
             /\ StackSnapshot(3, 2, w.dragProgress).visualDepth = 0

\* Sheet 2 is dragged by half of its panel height above the open sheet 1:
\* it owns progress 0.5 and sheet 1, at depth 1, shows visual depth 0.5.
C29_Witness ==
  /\ activeStackDragParticipantId = 2 /\ activeStackDragProgress = Unit \div 2
  /\ 2 * dragOffsetY[2] = dragPanelHeight[2] /\ dragPanelHeight[2] > 0
  /\ isOpen[1] /\ ~stackDom[1].cleared
  /\ stackDom[1].stackDepth = 1 /\ stackDom[1].visualDepth = Unit \div 2
  /\ ~stackDom[2].cleared /\ stackDom[2].stackTop
  /\ stackDom[2].visualDepth = 0


\* ---------------------------------------------------------------- C30
\* Progress values a caller hands to setSheetStackDragProgress, in
\* thousandths, and finger displacements since the touch started, in px.
ProgressInputs == {-500, 0, 250, 500, Unit, 1500}
Displacements == {1, 75, 150, 200, 400}

\* The state with the syncs of the operation that follows counted.
Counting == [World EXCEPT !.observed = @ \cup {"syncs"}]

\* C30: setSheetStackDragProgress(id, progress) with the record already at
\* (id, clamped progress) changes nothing and runs no sync; otherwise it
\* runs exactly one sync on the pair (id, progress clamped to [0,1]): the
\* pair is the record when id is the top-most open participant and the
\* clamped progress is positive, and every open participant shows the
\* visual depth of that pair.  While the finger moves down, a greater
\* displacement never reports a smaller progress, and the stored progress is
\* within [0,1].
C30_SetDragProgress ==
  /\ \A id \in Ids, progress \in ProgressInputs :
       LET clamped == Max(0, Min(Unit, progress))
           w == setSheetStackDragProgress(Counting, id, progress)
           applied == IF isTopOpenSheetStackParticipant(World, id)
                      THEN clamped ELSE 0
       IN  IF activeStackDragParticipantId = id
              /\ activeStackDragProgress = clamped
           THEN w = Counting
           ELSE /\ w.syncs = 1
                /\ IF applied > 0
                   THEN w.dragId = id /\ w.dragProgress = clamped
                   ELSE w.dragId = NoId /\ w.dragProgress = 0
                /\ \A j \in sheetStackParticipants :
                     isOpen[j] =>
                       /\ ~w.stackDom[j].cleared
                       /\ w.stackDom[j].visualDepth =
                            Max(0, w.stackDom[j].stackDepth * Unit - applied)
                       /\ w.stackDom[j].stackDragging = (applied > 0)
  /\ \A i \in Live, height \in PanelHeights, d1, d2 \in Displacements :
       (isTouchTracking[i] /\ isTopMostOpenSheet(World, i) /\ d1 <= d2) =>
         LET w1 == handleTouchMove(World, i, TRUE, d1, height)
             w2 == handleTouchMove(World, i, TRUE, d2, height)
         IN  /\ 0 <= w1.dragProgress
             /\ w1.dragProgress <= w2.dragProgress
             /\ w2.dragProgress <= Unit
             /\ w2.dragProgress > 0 => w2.dragId = i
  /\ activeStackDragProgress >= 0 /\ activeStackDragProgress <= Unit

\* The top-most sheet has been dragged down by its whole effective panel
\* height and owns progress 1.
C30_Witness ==
  \E i \in Live :
    /\ activeStackDragParticipantId = i /\ activeStackDragProgress = Unit
    /\ isDragging[i] /\ isTopMostOpenSheet(World, i)
    /\ dragOffsetY[i] = getStackDragProgressDistance(World, i, 0)

\* ---------------------------------------------------------------- C31
\* The ids a caller can pass: a registered or destroyed sheet's id, null, an
\* id no sheet ever had, or none at all.
ClearIds == Ids \cup {NoId, NumSheets + 1, Undefined}

\* C31: clearSheetStackDragProgress(id) resets the record to (no owner, 0)
\* and runs exactly one sync (the state is the one a sync of the reset record
\* leaves, the record (no owner, 0) included) when id is not passed or is
\* the owner and the record is not (no owner, 0) already; with any other id,
\* registered or not, it changes nothing and runs no sync.
C31_ClearDragProgress ==
  /\ \A id \in {Undefined, activeStackDragParticipantId} :
       LET cleared == clearSheetStackDragProgress(World, id)
       IN  cleared.dragId = NoId /\ cleared.dragProgress = 0
  /\ \A owner \in Ids \cup {NoId}, progress \in {0, 500}, id \in ClearIds :
       LET w == [Counting EXCEPT !.dragId = owner, !.dragProgress = progress]
       IN  IF (id = Undefined \/ id = owner) /\ ~(owner = NoId /\ progress = 0)
           THEN clearSheetStackDragProgress(w, id) =
                  [syncSheetStackState(
                     [World EXCEPT !.dragId = NoId, !.dragProgress = 0])
                   EXCEPT !.observed = w.observed, !.syncs = w.syncs + 1]
           ELSE clearSheetStackDragProgress(w, id) = w

\* Sheet 2 owns half a drag above the open sheet 1: a clear with sheet 1's
\* id or an unknown id leaves the record, a clear with sheet 2's id or with
\* no id resets it.
C31_Witness ==
  /\ activeStackDragParticipantId = 2 /\ activeStackDragProgress = 500
  /\ isOpen[1] /\ isOpen[2] /\ isDragging[2]
  /\ clearSheetStackDragProgress(World, 1) = World
  /\ clearSheetStackDragProgress(World, NumSheets + 1) = World
  /\ clearSheetStackDragProgress(World, 2).dragId = NoId
  /\ clearSheetStackDragProgress(World, Undefined).dragId = NoId

\* ---------------------------------------------------------------- C32
\* At touch start instance i is open, on a narrow surface and top-most, one
\* finger touches, the target is outside interactive controls (the backdrop
\* excepted) and no scrollable element between it and the panel is scrolled
\* down from its top.
MayBeginTracking(i, touches, target) ==
  /\ isOpen[i] /\ mobile /\ isTopMostOpenSheet(World, i)
  /\ touches = 1
  /\ target.closest \in {"none", "backdrop"}
  /\ \A k \in 1..Len(target.path) :
       isElementScrollableY(target.path[k]) => target.path[k].scrollTop = 0

\* C32: a touch start on an instance that tracks no touch begins tracking
\* only if the instance is open, on a narrow surface and top-most, one
\* finger touches, the target is outside interactive controls (the backdrop
\* excepted) and no scrollable ancestor inside the panel is scrolled down;
\* otherwise the moves and the end of the gesture change nothing (no
\* offset, no drag progress, no close).
C32_TrackingOnlyWhenEligible ==
  \A i \in Live, touches \in TouchCounts, target \in TouchTargets :
    ~isTouchTracking[i] =>
      LET started == handleTouchStart(World, i, touches, target, 300)
      IN  ~MayBeginTracking(i, touches, target) =>
            /\ started = World
            /\ \A deltaY \in Deltas :
                 handleTouchMove(started, i, TRUE, deltaY, 300) = started
            /\ handleTouchEnd(started, i) = started

\* ---------------------------------------------------------------- C33
\* C33: in a tracked gesture a move up or of zero before dragging began
\* changes nothing; a move once dragging began, or a move down, leaves the
\* live offset at max(0, displacement); and as long as an instance is in its
\* dragging state the panel's inline transform is translateY(<live offset>px)
\* and root carries the dragging marker, whatever callback ran in between.
C33_OffsetFollowsFinger ==
  \A i \in Live :
    /\ isTouchTracking[i] =>
         \A deltaY \in Deltas \cup {0} :
           LET moved == handleTouchMove(World, i, TRUE, deltaY, 300)
           IN  IF deltaY <= 0 /\ ~isDragging[i]
               THEN moved = World
               ELSE /\ moved.dragOffsetY[i] = Max(0, deltaY)
                    /\ moved.isDragging[i]
                    /\ moved.panelStyle[i].transform =
                         TranslateY(Max(0, deltaY), "px")
                    /\ moved.panelStyle[i].dragging
    /\ isDragging[i] =>
         /\ dragOffsetY[i] >= 0
         /\ panelStyle[i].transform = TranslateY(dragOffsetY[i], "px")
         /\ panelStyle[i].dragging

\* ---------------------------------------------------------------- C34
\* The panel of instance i in w carries no offset: no inline transform, or
\* the translation to its resting place.
PanelAtRest(w, i) ==
  w.panelStyle[i].transform \in {NoTransform, TranslateY(0, "px")}

\* C34: when a second finger touches the surface of an instance that tracks
\* a touch, the drag is cancelled: the instance tracks and drags no more,
\* its live offset is 0 and its panel at rest without the dragging marker,
\* the coordinator's drag record is not its own, and the end of the gesture
\* leaves the open flag as it is.
C34_SecondFingerCancels ==
  \A i \in Live, target \in TouchTargets :
    isTouchTracking[i] =>
      LET cancelled == handleTouchStart(World, i, 2, target, 300)
      IN  /\ ~cancelled.isTouchTracking[i] /\ ~cancelled.isDragging[i]
          /\ cancelled.dragOffsetY[i] = 0
          /\ PanelAtRest(cancelled, i) /\ ~cancelled.panelStyle[i].dragging
          /\ cancelled.dragId # i
          /\ handleTouchEnd(cancelled, i).isOpen[i] = isOpen[i]

\* ---------------------------------------------------------------- C35
\* C35 as claimed: once captured, the base viewport height of an instance is
\* never replaced by a smaller value, whatever viewport events, closes and
\* re-opens follow.
C35_BaseNeverShrinks ==
  [][\A i \in Ids :
       mobileHeightState'[i].baseMobileViewportHeight >=
         mobileHeightState[i].baseMobileViewportHeight]_vars

\* C35 as amended: a height computation of an open instance on a narrow
\* surface captures the layout height when no base is stored and replaces a
\* stored base by a larger layout height only; the stored base becomes
\* smaller only by being cleared (to 0), with the flag false, off a narrow
\* surface or at destroy, and any other change of it takes the layout
\* height of that moment, on an open instance on a narrow surface.
C35_BaseGrowsUntilCleared ==
  [][\A i \in Ids :
       LET base == mobileHeightState[i].baseMobileViewportHeight
           next == mobileHeightState'[i].baseMobileViewportHeight
           computed == updateMobileOpenHeight(World, i)
                         .mobileHeightState[i].baseMobileViewportHeight
       IN  /\ (i \in Live /\ isOpen[i] /\ mobile) =>
                computed = IF base = 0 THEN viewport.innerHeight
                           ELSE Max(base, viewport.innerHeight)
           /\ next < base =>
                /\ next = 0
                /\ ~isOpen'[i] \/ ~mobile' \/ status'[i] = "destroyed"
           /\ (next # base /\ next # 0) =>
                next = viewport'.innerHeight /\ isOpen'[i] /\ mobile']_vars

\* An open sheet keeps the base 1200 it stored although the layout height is
\* 1000 now.
C35_Witness ==
  \E i \in Live :
    /\ isOpen[i] /\ mobile
    /\ mobileHeightState[i].baseMobileViewportHeight = 1200
    /\ viewport.innerHeight = 1000

\* ---------------------------------------------------------------- C36
\* The state, with the onOpenChange calls and the panel followed.
Following == [World EXCEPT !.observed = @ \cup {"calls", "panel"}]

\* Instance i is live and its flag equals the value it reconciled last.
NoEdge(i) == i \in Live /\ isOpen[i] = previousOpen[i]

\* What a reconciliation of i without edge keeps whatever the state: the
\* open-orders, the reported value and reason, the retention and readiness
\* races, the state and adjustable markers; and it calls no onOpenChange.
NoEdgeKeeps(once, i) ==
  /\ once.openOrder = openOrder /\ once.nextOrder = nextSheetStackOpenOrder
  /\ once.calls[i] = << >>
  /\ once.previousOpen = previousOpen /\ once.pendingReason = pendingReason
  /\ once.retain[i] = retainStackSnapshotWhileClosed[i]
  /\ once.schedule[i] = stackSnapshotRetainSchedule[i]
  /\ once.adjustableTrackingStartSchedule[i] =
       adjustableTrackingStartSchedule[i]
  /\ once.adjustableTrackingReady[i] = adjustableTrackingReady[i]
  /\ once.rootState[i] = rootState[i]
  /\ once.adjustableTracking[i] = adjustableTracking[i]

ContentWidths == {0, 320, 360}

\* The state with the content laid out at the given width.
AtWidth(width) == [World EXCEPT !.viewport.width = width]

\* A read of the natural height of i in w measured again.
Remeasured(w, i) ==
  LET read == getNaturalPanelHeight(w, i).mobileHeightState[i]
  IN  /\ read.cachedNaturalPanelHeight = Max(0, w.content[i])
      /\ ~read.naturalPanelHeightDirty
      /\ read.lastMeasuredScrollContentWidth = w.viewport.width

\* Every content-size signal marks the cache of i dirty and leaves exactly
\* one height update pending, however many signals arrive, and never more
\* than one is pending.
SignalsCoalesce(i) ==
  LET once == handleContentSizeChange(World, i)
      twice == handleContentSizeChange(once, i)
  IN  /\ once.mobileHeightState[i].naturalPanelHeightDirty
      /\ once.tracking[i].scheduledMobileHeightUpdateRaf
      /\ once.tracking[i].mobileHeightUpdateFrames = 1
      /\ twice = once
      /\ tracking[i].mobileHeightUpdateFrames =
           (IF tracking[i].scheduledMobileHeightUpdateRaf THEN 1 ELSE 0)

\* C37 as claimed: a read returns the cached natural height only if the
\* cache is clean and the content width is the width it was measured at,
\* and measures again otherwise; signals mark it dirty and coalesce.
C37_CacheReadOnlyWhenValid ==
  \A i \in Live :
    /\ SignalsCoalesce(i)
    /\ \A width \in ContentWidths :
         IF \/ mobileHeightState[i].naturalPanelHeightDirty
            \/ width # mobileHeightState[i].lastMeasuredScrollContentWidth
         THEN Remeasured(AtWidth(width), i)
         ELSE getNaturalPanelHeight(AtWidth(width), i) = AtWidth(width)

\* C37 as amended: the same, a content width of 0 not counting as a change
\* of width.
C37_CacheReadOnlyWhenValidLaidOut ==
  \A i \in Live :
    /\ SignalsCoalesce(i)
    /\ \A width \in ContentWidths :
         IF \/ mobileHeightState[i].naturalPanelHeightDirty
            \/ /\ width > 0
               /\ width # mobileHeightState[i].lastMeasuredScrollContentWidth
         THEN Remeasured(AtWidth(width), i)
         ELSE getNaturalPanelHeight(AtWidth(width), i) = AtWidth(width)

\* An open adjustable sheet whose cache was clean got a content-size signal:
\* the cache holds the old height, is dirty, and one update is pending.
C37_Witness ==
  \E i \in Live :
    /\ isOpen[i] /\ adjustableTrackingReady[i]
    /\ mobileHeightState[i].naturalPanelHeightDirty
    /\ mobileHeightState[i].cachedNaturalPanelHeight # content[i]
    /\ mobileHeightState[i].lastMeasuredScrollContentWidth = 320
    /\ tracking[i].mobileHeightUpdateFrames = 1

\* ---------------------------------------------------------------- C38
\* C38: a reconciled open sheet that tracks no touch and drags nothing is
\* at rest: its backdrop open-opacity is 1 and its panel carries no offset.
\* This covers the sheet that is not dismissible after the release of a
\* drag of 150 px or more, whose close request is refused.
C38_OpenSheetAtRest ==
  \A i \in Live :
    (/\ isOpen[i] /\ previousOpen[i] /\ changedStates = << >>
     /\ ~isTouchTracking[i] /\ ~isDragging[i])
    => (backdropOpacity[i] = Unit /\ PanelAtRest(World, i))

\* ---------------------------------------------------------------- C39
\* The open values of a sequence of onOpenChange calls.
OpenValues(made) == [k \in 1..Len(made) |-> made[k].open]

\* No two neighbours of a sequence of open values are equal.
Alternates(values) ==
  \A k \in 1..(Len(values) - 1) : values[k] # values[k + 1]

\* The value the calls of instance i so far end with: the open value of its
\* latest call, or with no call yet the flag value it was constructed with.
LatestReported(i) ==
  IF reported[i].last = "none" THEN reported[i].initial
  ELSE reported[i].last = "open"

\* C39: the onOpenChange calls of an instance alternate.  The step that
\* constructs it makes no call; in every other step the calls made continue
\* the alternation: the first carries the negation of the latest value
\* reported (of the initial flag value when none was), and each further
\* call the negation of the one before.
C39_CallsAlternate ==
  [][\A i \in Ids :
       IF status[i] = "none" THEN calls'[i] = << >>
       ELSE Alternates(<< LatestReported(i) >> \o OpenValues(calls'[i]))
    ]_vars

\* C39 witness: an instance constructed open has been told of a close and,
\* the host having written the flag inside that call, the batch at hand told
\* it of an open.
C39_Witness ==
  \E i \in Created :
    /\ reported[i].initial /\ reported[i].last = "open"
    /\ Len(calls[i]) = 1 /\ calls[i][1].open
    /\ calls[i][1].cause = "host"

====
